---- MODULE Spec2Model ----
(***************************************************************************)
(* Model of the session and pagination core of zscaler_api_talkers:        *)
(*   ClientConnectorTalker  (client_connector/talker.py)                   *)
(*   ZpaTalker              (zpa_talker/zpa_talker.py)                     *)
(*   ZiaPortalTalker        (zia/portal_talker.py)                         *)
(* One behaviour follows one talker instance, created without credentials, *)
(* through a sequence of authenticate and endpoint method calls.  The      *)
(* remote side (login responses, page bodies, status codes, network        *)
(* errors) is chosen nondeterministically at every request.  Further       *)
(* specifications follow calls that run at the same time, on one instance  *)
(* or on two.                                                              *)
(***************************************************************************)
EXTENDS Integers, Sequences, FiniteSets, TLC

VARIABLES
    talker,           \* class of the instance: "cc", "zpa" or "portal"
    header,           \* self.header of ClientConnectorTalker / ZpaTalker
    j_session_id,     \* self.j_session_id of ZiaPortalTalker
    zs_session_code,  \* self.zs_session_code of ZiaPortalTalker
    headers,          \* self.headers of ZiaPortalTalker
    pc,               \* position of the endpoint method call in progress
    url,              \* local url of the pagination call
    arg_headers,      \* parameter headers of ClientConnectorTalker._obtain_all
    page,             \* local page of ClientConnectorTalker._obtain_all
    i,                \* local i of ZpaTalker._obtain_all_results
    response,         \* local response of ZpaTalker._obtain_all_results
    result,           \* local result of either paginator
    ret,              \* what the caller of the last call observed
    sent,             \* history: requests handed to the transport by the last call
    recvd,            \* history: the page responses received by the last pagination call
    login,            \* history: the last authenticate call, its response and outcome
    base_uri,         \* self.base_uri
    peer,             \* a second instance, when there is one
    calls,            \* the pagination calls that run at the same time on the instance
    threads,          \* an authenticate and an endpoint call that run at the same time
    args              \* history: the arguments of the constructor or listing method called

vars == <<talker, header, j_session_id, zs_session_code, headers, pc, url,
          arg_headers, page, i, response, result, ret, sent, recvd, login,
          base_uri, peer, calls, threads, args>>

session == <<header, j_session_id, zs_session_code, headers>>
locals == <<url, arg_headers, page, i, response, result>>

(***************************************************************************)
(* Bounds and value sets                                                   *)
(***************************************************************************)
MaxPageLen == 2        \* longest page body the remote returns
MaxFetches == 3        \* most fetches of one ClientConnectorTalker._obtain_all call
MaxTotalPages == 2     \* largest totalPages the ZPA remote reports

Records == {"a", "b"}
Pages == UNION {[1..n -> Records] : n \in 0..MaxPageLen}
Tokens == {"t1", "t2"}
Statuses == {200, 500}

None == "None"               \* Python None held in a string-valued field
NoDict == <<>>               \* no header / cookie mapping: None or {}

Dict1(k, v) == k :> v
Dict2(k1, v1, k2, v2) == (k1 :> v1) @@ (k2 :> v2)

(***************************************************************************)
(* Transport: HttpCalls.get_call / post_call / put_call / delete_call and  *)
(* request_.  A reply is a response with a status, or a network error.     *)
(***************************************************************************)
NetworkError == [kind |-> "network_error", status |-> 0]
Is2xx(status) == status \in 200..299

\* value of the error_handling parameter when a call site does not pass it
error_handling_default == FALSE

\* whether the transport call raises instead of returning the response
Raises(error_handling, reply) ==
    \/ reply.kind = "network_error"
    \/ error_handling /\ ~Is2xx(reply.status)

Request(via, target, hdrs, cookies, error_handling) ==
    [via |-> via, url |-> target, headers |-> hdrs, cookies |-> cookies,
     error_handling |-> error_handling]

\* what the caller of method m observed
NoCall == [method |-> "none", outcome |-> "none"]
Running(m) == [method |-> m, outcome |-> "running"]
Returned(m, v) == [method |-> m, outcome |-> "returned", value |-> v]
Raised(m, e) == [method |-> m, outcome |-> "raised", error |-> e]

\* history of one pagination call.  first: the body of the
\* response to the request that precedes the page loop of
\* ZpaTalker._obtain_all_results, once received.  Of the responses to the
\* page loop: n, how many were received; empty, how many of them had an
\* empty listing; flat, their listings one after the other in the order of
\* arrival.  failed: how many requests of the call the remote answered with
\* a status that is not 2xx, or not at all.  delays: the lengths, in
\* milliseconds, of the delays the call has completed.  answered: how many
\* requests of the call the transport has come back from, with a response
\* or with an error.
NoneReceived ==
    [first |-> <<>>, n |-> 0, empty |-> 0, flat |-> <<>>, failed |-> 0, delays |-> <<>>,
     answered |-> 0]
Observe(h, reply) ==
    IF reply.kind = "network_error" \/ ~Is2xx(reply.status)
    THEN [h EXCEPT !.failed = h.failed + 1, !.answered = h.answered + 1]
    ELSE [h EXCEPT !.answered = h.answered + 1]
ReceiveFirst(h, body) == [h EXCEPT !.first = <<body>>]
Receive(h, list) ==
    [h EXCEPT !.n = h.n + 1,
              !.empty = h.empty + (IF list = <<>> THEN 1 ELSE 0),
              !.flat = h.flat \o list]

Delayed(h, ms) == [h EXCEPT !.delays = Append(h.delays, ms)]

\* history of the authenticate calls: outcome, reply and error of the last
\* one; attached, the token or cookie values its response carried when it
\* succeeded; before, those of the last authenticate call that succeeded
\* before it, if any
NoLogin == [outcome |-> "none", before |-> <<>>]
\* no constructor or listing method has been called with arguments
NoArgs == [method |-> "none"]
Before(l) == IF l.outcome = "ok" THEN <<l.attached>> ELSE l.before
LoginOk(l, reply, values) ==
    [outcome |-> "ok", reply |-> reply, attached |-> values, before |-> Before(l)]
LoginFailed(l, reply, e) ==
    [outcome |-> "raised", reply |-> reply, error |-> e, before |-> Before(l)]
\* the values of the expected fields of a login response
CcIssued(reply) == <<reply.body["jwtToken"]>>
ZpaIssued(reply) == <<reply.body["token_type"], reply.body["access_token"]>>
PortalIssued(reply) == <<reply.cookies["JSESSIONID"], reply.cookies["ZS_SESSION_CODE"]>>

\* replies of the remote to a request whose body the model does not look into
PlainReplies == {NetworkError} \cup [kind : {"response"}, status : Statuses]

(***************************************************************************)
(* ClientConnectorTalker                                                   *)
(***************************************************************************)
CcLoginBodies == {NoDict} \cup {Dict1("jwtToken", t) : t \in Tokens}
CcLoginReplies ==
    {NetworkError} \cup [kind : {"response"}, status : Statuses, body : CcLoginBodies]

CcLoginRequest ==
    Request("post_call", <<"/auth/v1/login">>, Dict1("Accept", "*/*"), NoDict,
            error_handling_default)

\* authenticate, lines 54-64: the exception it ends in, or "ok"
CcAuthOutcome(reply) ==
    IF Raises(error_handling_default, reply) THEN "TransportError"
    ELSE IF "jwtToken" \notin DOMAIN reply.body THEN "KeyError"
    ELSE "ok"

\* an authenticate that sets the header only while none is held
CcAuthHeaderKeepFirst(old, reply) ==
    IF CcAuthOutcome(reply) = "ok" /\ old = NoDict
    THEN Dict1("auth-token", reply.body["jwtToken"])
    ELSE old

\* authenticate, line 64: the header the instance holds afterwards
CcAuthHeader(old, reply) ==
    IF CcAuthOutcome(reply) = "ok"
    THEN Dict1("auth-token", reply.body["jwtToken"])
    ELSE old

CcAuthenticate(reply) ==
    /\ talker = "cc"
    /\ header' = CcAuthHeader(header, reply)
    /\ sent' = <<CcLoginRequest>>
    /\ login' = IF CcAuthOutcome(reply) = "ok" THEN LoginOk(login, reply, CcIssued(reply))
                ELSE LoginFailed(login, reply, CcAuthOutcome(reply))
    /\ ret' = IF CcAuthOutcome(reply) = "ok" THEN Returned("authenticate", None)
              ELSE Raised("authenticate", CcAuthOutcome(reply))
    /\ UNCHANGED <<talker, base_uri, args, peer, calls, threads, j_session_id, zs_session_code, headers, pc, locals, recvd>>

\* list_otp, list_passwords, remove_devices, force_remove_devices and
\* list_download_service_status each send one request with
\* headers=self.header; a get_call and a post_call of them stand for the five
CcMethods ==
    { [name |-> "list_otp", verb |-> "get_call", url |-> <<"/public/v1/getOtp">>],
      [name |-> "remove_devices", verb |-> "post_call", url |-> <<"/public/v1/removeDevices">>] }

\* an endpoint method that drops the token when its request fails
CcEndpointDroppingToken(m, reply) ==
    /\ talker = "cc"
    /\ sent' = <<Request(m.verb, m.url, header, NoDict, error_handling_default)>>
    /\ ret' = IF Raises(error_handling_default, reply)
              THEN Raised(m.name, "TransportError")
              ELSE Returned(m.name, reply)
    /\ header' = IF Raises(error_handling_default, reply) THEN NoDict ELSE header
    /\ UNCHANGED <<talker, base_uri, args, peer, calls, threads, j_session_id, zs_session_code,
                   headers, pc, locals, recvd, login>>

CcEndpoint(m, reply) ==
    /\ talker = "cc"
    /\ sent' = <<Request(m.verb, m.url, header, NoDict, error_handling_default)>>
    /\ ret' = IF Raises(error_handling_default, reply)
              THEN Raised(m.name, "TransportError")
              ELSE Returned(m.name, reply)
    /\ UNCHANGED <<talker, base_uri, args, peer, calls, threads, session, pc, locals, recvd, login>>

\* list_devices, lines 113-117: the url handed to _obtain_all; "if username:"
\* and "if os_type:" skip None and the empty string alike
CcDevicesUrl(username, os_type) ==
    <<"/public/v1/getDevices", "?pageSize", "500">>
        \o (IF username \notin {None, ""} THEN <<"&username", username>> ELSE <<>>)
        \o (IF os_type \notin {None, ""} THEN <<"&osType", os_type>> ELSE <<>>)

\* list_devices up to the first loop iteration of _obtain_all, lines 113-122, 83-84
CcListDevices(username, os_type) ==
    /\ talker = "cc"
    /\ url' = CcDevicesUrl(username, os_type)
    /\ arg_headers' = header
    /\ page' = 1
    /\ result' = <<>>
    /\ pc' = "cc_fetch"
    /\ ret' = Running("list_devices")
    /\ sent' = <<>>
    /\ recvd' = NoneReceived
    /\ UNCHANGED <<talker, base_uri, args, peer, calls, threads, session, i, response, login>>

\* a paginator that fetches its pages without error_handling
CcFetchErrorHandlingOff == FALSE

\* _obtain_all, line 91: error_handling passed to every page fetch
CcFetchErrorHandling == TRUE

\* _obtain_all, lines 86-92: the request for the current page
CcPageRequest ==
    Request("get_call", url \o <<"&page", ToString(page)>>, arg_headers, NoDict,
            CcFetchErrorHandling)

\* replies to a page fetch: any page with status 200, a page with an error
\* status, or no response at all
ErrorPages == {<<>>, <<"a">>}
CcPageReplies(P) ==
    {NetworkError}
        \cup [kind : {"response"}, status : {200}, body : P]
        \cup [kind : {"response"}, status : Statuses \ {200}, body : ErrorPages]

\* a loop that takes every page for a page of records
TruthyAlways(body) == TRUE

\* _obtain_all, line 93: if response.json()
Truthy(body) == body # <<>>

\* a paginator that puts each new page in front of the pages it holds
CcAccumulatePrepend(acc, body) == body \o acc

\* _obtain_all, line 94: result += response.json()
CcAccumulate(acc, body) == acc \o body

\* a loop that gives up after a fixed number of pages
CcLoopConditionCapped(next) == next < MaxFetches

\* _obtain_all, line 86: while True, asked before the fetch of page next
CcLoopCondition(next) == TRUE

\* _obtain_all, lines 86-100: one pass of the loop body up to the sleep,
\* or the return
CcFetch(reply) ==
    /\ talker = "cc"
    /\ pc = "cc_fetch"
    /\ Len(sent) < MaxFetches
    /\ sent' = Append(sent, CcPageRequest)
    /\ IF Raises(CcFetchErrorHandling, reply)
       THEN /\ pc' = "idle"
            /\ ret' = Raised("list_devices", "TransportError")
            /\ url' = <<>> /\ arg_headers' = NoDict /\ page' = 0 /\ result' = <<>>
            /\ recvd' = Observe(recvd, reply)
       ELSE /\ recvd' = Receive(Observe(recvd, reply), reply.body)
            /\ IF Truthy(reply.body) /\ CcLoopCondition(page + 1)
               THEN /\ result' = CcAccumulate(result, reply.body)
                    /\ page' = page + 1
                    /\ pc' = "cc_sleep"
                    /\ UNCHANGED <<url, arg_headers, ret>>
               ELSE /\ pc' = "idle"
                    /\ ret' = Returned("list_devices",
                                       IF Truthy(reply.body)
                                       THEN CcAccumulate(result, reply.body)
                                       ELSE result)
                    /\ url' = <<>> /\ arg_headers' = NoDict /\ page' = 0 /\ result' = <<>>
    /\ UNCHANGED <<talker, base_uri, args, peer, calls, threads, session, i, response, login>>

\* _obtain_all, line 96: the argument of time.sleep, 0.5 s, in milliseconds
InterPageDelayMs == 500

\* a loop that goes on to the next fetch without the delay
CcSleepSkipped ==
    /\ talker = "cc"
    /\ pc = "cc_sleep"
    /\ pc' = "cc_fetch"
    /\ UNCHANGED <<talker, base_uri, args, peer, calls, threads, session, locals, ret, sent, recvd, login>>

\* _obtain_all, line 96: time.sleep(0.5) before the next fetch
CcSleep ==
    /\ talker = "cc"
    /\ pc = "cc_sleep"
    /\ pc' = "cc_fetch"
    /\ recvd' = Delayed(recvd, InterPageDelayMs)
    /\ UNCHANGED <<talker, base_uri, args, peer, calls, threads, session, locals, ret, sent, login>>

(***************************************************************************)
(* ZpaTalker                                                               *)
(***************************************************************************)
ZpaLoginBodies ==
    {NoDict, Dict1("token_type", "Bearer")}
        \cup {Dict1("access_token", t) : t \in Tokens}
        \cup {Dict2("token_type", "Bearer", "access_token", t) : t \in Tokens}
ZpaLoginReplies ==
    {NetworkError} \cup [kind : {"response"}, status : Statuses, body : ZpaLoginBodies]

\* authenticate, line 101: error_handling passed to the login request
ZpaLoginErrorHandling == TRUE

ZpaLoginRequest ==
    Request("post_call", <<"/signin">>,
            Dict1("Content-Type", "application/x-www-form-urlencoded"), NoDict,
            ZpaLoginErrorHandling)

\* authenticate, lines 98-107: the exception it ends in, or "ok"
ZpaAuthOutcome(reply) ==
    IF Raises(ZpaLoginErrorHandling, reply) THEN "TransportError"
    ELSE IF "token_type" \notin DOMAIN reply.body THEN "KeyError"
    ELSE IF "access_token" \notin DOMAIN reply.body THEN "KeyError"
    ELSE "ok"

\* authenticate, lines 105-107: the header the instance holds afterwards;
\* the value "<token_type> <access_token>" is kept as the pair of its parts
ZpaAuthHeader(old, reply) ==
    IF ZpaAuthOutcome(reply) = "ok"
    THEN Dict1("Authorization", <<reply.body["token_type"], reply.body["access_token"]>>)
    ELSE old

ZpaAuthenticate(reply) ==
    /\ talker = "zpa"
    /\ header' = ZpaAuthHeader(header, reply)
    /\ sent' = <<ZpaLoginRequest>>
    /\ login' = IF ZpaAuthOutcome(reply) = "ok" THEN LoginOk(login, reply, ZpaIssued(reply))
                ELSE LoginFailed(login, reply, ZpaAuthOutcome(reply))
    /\ ret' = IF ZpaAuthOutcome(reply) = "ok" THEN Returned("authenticate", reply.body)
              ELSE Raised("authenticate", ZpaAuthOutcome(reply))
    /\ UNCHANGED <<talker, base_uri, args, peer, calls, threads, j_session_id, zs_session_code, headers, pc, locals, recvd>>

\* the methods that send one request with headers=self.header and
\* error_handling=True; two of them stand for all
ZpaMethods ==
    { [name |-> "list_servers", verb |-> "get_call"],
      [name |-> "add_application_segment", verb |-> "post_call"] }

\* the headers argument of the single request of method m
ZpaEndpointHeaders(m) == header

ZpaEndpoint(m, reply) ==
    /\ talker = "zpa"
    /\ sent' = <<Request(m.verb, <<m.name>>, ZpaEndpointHeaders(m), NoDict, TRUE)>>
    /\ ret' = IF Raises(TRUE, reply)
              THEN Raised(m.name, "TransportError")
              ELSE Returned(m.name, reply)
    /\ UNCHANGED <<talker, base_uri, args, peer, calls, threads, session, pc, locals, recvd, login>>

\* delete_application_segment, lines 296-299: delete_call(url=url, error_handling=True)
ZpaDeleteApplicationSegment(reply) ==
    /\ talker = "zpa"
    /\ sent' = <<Request("delete_call", <<"/application/", "applicationId">>,
                         NoDict, NoDict, TRUE)>>
    /\ ret' = IF Raises(TRUE, reply)
              THEN Raised("delete_application_segment", "TransportError")
              ELSE Returned("delete_application_segment", reply)
    /\ UNCHANGED <<talker, base_uri, args, peer, calls, threads, session, pc, locals, recvd, login>>

\* the query argument of the listing methods: False, or a query string
NoQuery == <<>>
Queries ==
    { NoQuery,
      <<"?pagesize", "20">>,
      <<"?page", "1", "&pagesize", "20", "&search", "consequat">> }

\* list_application_segments without applicationId, line 160
ApplicationSegmentsUrl == <<"/application">>

\* list_segment_group without segmentGroupId, lines 324-328
SegmentGroupUrl(query) ==
    <<"/segmentGroup">> \o (IF query = NoQuery THEN <<"?pagesize", "500">> ELSE query)

ZpaListingUrls ==
    {ApplicationSegmentsUrl} \cup {SegmentGroupUrl(q) : q \in Queries}

Contains(u, token) == \E k \in 1..Len(u) : u[k] = token

\* _obtain_all_results, lines 54-55
ZpaPagedUrl(u) ==
    IF ~Contains(u, "?pagesize") THEN u \o <<"?pagesize", "500">> ELSE u

\* a JSON number or a JSON string of digits, and Python's int() of it
TotalPagesValues == [json : {"number", "string"}, digits : 0..MaxTotalPages]
PyInt(v) == v.digits

\* bodies of the first response; one that reports more than one page
\* carries a listing of FewPages
FewPages == {<<>>, <<"a">>}
FewTotals == {[json |-> "number", digits |-> 1], [json |-> "string", digits |-> 2]}
ZpaBodies(P, TP) ==
    {NoDict}
        \cup {Dict1("list", l) : l \in P}
        \cup {Dict1("totalPages", tp) : tp \in TP}
        \cup {Dict2("list", l, "totalPages", tp) : l \in FewPages, tp \in TP}
        \cup {Dict2("list", l, "totalPages", tp) :
                 l \in P, tp \in {v \in TP : v.digits <= 1}}
\* bodies of the responses to the page loop: what they report as totalPages
\* is either nothing or a total of 0
ZpaPageBodies(P) ==
    {NoDict}
        \cup {Dict1("list", l) : l \in P}
        \cup {Dict2("list", l, "totalPages", [json |-> "number", digits |-> 0]) : l \in P}
ZpaErrorBodies == {NoDict, Dict2("list", <<"a">>, "totalPages", [json |-> "number", digits |-> 1])}
ZpaReplies(B) ==
    {NetworkError}
        \cup [kind : {"response"}, status : {200}, body : B]
        \cup [kind : {"response"}, status : Statuses \ {200}, body : ZpaErrorBodies]

\* _obtain_all_results, lines 59 and 71: error_handling passed to every fetch
ZpaFetchErrorHandling == TRUE

ZpaFirstRequest(u) ==
    Request("get_call", ZpaPagedUrl(u), header, NoDict, ZpaFetchErrorHandling)

\* a loop that asks for the same page at every pass
ZpaPageRequestSamePage ==
    Request("get_call", url \o <<"&page", ToString(0)>>, header, NoDict,
            ZpaFetchErrorHandling)

\* _obtain_all_results, lines 68-72: the request for page index i
ZpaPageRequest ==
    Request("get_call", url \o <<"&page", ToString(i)>>, header, NoDict,
            ZpaFetchErrorHandling)

\* a page loop entered whatever total is reported
ZpaLoopsAlways(body) == TRUE

\* a page loop entered as soon as one page is reported
ZpaLoopsFromOne(body) == PyInt(body["totalPages"]) >= 1

\* _obtain_all_results, line 63: whether the page loop is entered
ZpaLoops(body) == PyInt(body["totalPages"]) > 1

\* a page loop that runs one index past the inclusive bound
ZpaLoopConditionOneMore(index, first) == index <= PyInt(first["totalPages"]) + 1

\* a page loop that stops before the reported total
ZpaLoopConditionExclusive(index, first) == index < PyInt(first["totalPages"])

\* _obtain_all_results, line 65: the loop condition
ZpaLoopCondition(index, first) == index <= PyInt(first["totalPages"])

\* a loop that keeps only the page it fetched last
ZpaAccumulateLast(acc, list) == list

\* _obtain_all_results, lines 66-73: result = result + <page>["list"]
ZpaAccumulate(acc, list) == acc \o list

\* a paginator that reads totalPages before it looks for the listing
ZpaFirstOutcomeTotalFirst(body) ==
    IF "totalPages" \notin DOMAIN body THEN "KeyError"
    ELSE IF ZpaLoops(body) THEN "loop"
    ELSE IF "list" \notin DOMAIN body THEN "empty"
    ELSE "single"

\* _obtain_all_results, lines 61-63 and 75: what the first response leads to
ZpaFirstOutcome(body) ==
    IF "list" \notin DOMAIN body THEN "empty"
    ELSE IF "totalPages" \notin DOMAIN body THEN "KeyError"
    ELSE IF ZpaLoops(body) THEN "loop"
    ELSE "single"

ZpaLeave(outcome) ==
    /\ pc' = "idle"
    /\ ret' = outcome
    /\ url' = <<>> /\ i' = 0 /\ response' = NoDict /\ result' = <<>>

\* a listing method calls _obtain_all_results(u): lines 53-64 and 75-78
ZpaObtainAllResults(u, reply) ==
    /\ talker = "zpa"
    /\ sent' = <<ZpaFirstRequest(u)>>
    /\ recvd' = IF Raises(ZpaFetchErrorHandling, reply)
                THEN Observe(NoneReceived, reply)
                ELSE ReceiveFirst(Observe(NoneReceived, reply), reply.body)
    /\ IF Raises(ZpaFetchErrorHandling, reply)
       THEN ZpaLeave(Raised("_obtain_all_results", "TransportError"))
       ELSE IF ZpaFirstOutcome(reply.body) = "empty"
       THEN ZpaLeave(Returned("_obtain_all_results", <<>>))
       ELSE IF ZpaFirstOutcome(reply.body) = "KeyError"
       THEN ZpaLeave(Raised("_obtain_all_results", "KeyError"))
       ELSE IF ZpaFirstOutcome(reply.body) = "loop"
       THEN /\ pc' = "zpa_loop"
            /\ ret' = Running("_obtain_all_results")
            /\ url' = ZpaPagedUrl(u)
            /\ i' = 0
            /\ result' = <<>>
            /\ response' = reply.body
       ELSE ZpaLeave(Returned("_obtain_all_results", reply.body["list"]))
    /\ UNCHANGED <<talker, base_uri, args, peer, calls, threads, session, arg_headers, page, login>>

\* _obtain_all_results, lines 65-78: one pass of the loop body, and the
\* return when the loop condition fails afterwards
ZpaLoopFetch(reply) ==
    /\ talker = "zpa"
    /\ pc = "zpa_loop"
    /\ ZpaLoopCondition(i, response)
    /\ sent' = Append(sent, ZpaPageRequest)
    /\ IF Raises(ZpaFetchErrorHandling, reply)
       THEN /\ ZpaLeave(Raised("_obtain_all_results", "TransportError"))
            /\ recvd' = Observe(recvd, reply)
       ELSE IF "list" \notin DOMAIN reply.body
       THEN /\ ZpaLeave(Raised("_obtain_all_results", "KeyError"))
            /\ recvd' = Observe(recvd, reply)
       ELSE /\ recvd' = Receive(Observe(recvd, reply), reply.body["list"])
            /\ IF ZpaLoopCondition(i + 1, response)
               THEN /\ result' = ZpaAccumulate(result, reply.body["list"])
                    /\ i' = i + 1
                    /\ UNCHANGED <<pc, ret, url, response>>
               ELSE ZpaLeave(Returned("_obtain_all_results",
                                      ZpaAccumulate(result, reply.body["list"])))
    /\ UNCHANGED <<talker, base_uri, args, peer, calls, threads, session, arg_headers, page, login>>

(***************************************************************************)
(* The listing methods of ZpaTalker                                        *)
(***************************************************************************)
\* the methods of the class body that call _obtain_all_results, in source
\* order: the path their url ends in, whether they take a query argument,
\* and whether the url they build holds {query}
ZpaClassBody ==
    << [name |-> "list_application_segments", path |-> "/application",
        takes_query |-> FALSE, formats_query |-> FALSE],
       [name |-> "list_segment_group", path |-> "/segmentGroup",
        takes_query |-> TRUE, formats_query |-> TRUE],
       [name |-> "list_connector", path |-> "/connector",
        takes_query |-> FALSE, formats_query |-> FALSE],
       [name |-> "list_connector_group", path |-> "/appConnectorGroup",
        takes_query |-> FALSE, formats_query |-> FALSE],
       [name |-> "list_browser_access_certificates", path |-> "/clientlessCertificate/issued",
        takes_query |-> FALSE, formats_query |-> FALSE],
       [name |-> "list_enrollment_certificates", path |-> "/enrollmentCert",
        takes_query |-> FALSE, formats_query |-> FALSE],
       [name |-> "list_browser_access_certificates", path |-> "/visible/versionProfiles",
        takes_query |-> FALSE, formats_query |-> FALSE],
       [name |-> "list_idP", path |-> "/idp",
        takes_query |-> TRUE, formats_query |-> TRUE],
       [name |-> "list_provisioningKey", path |-> "/associationType/{associationType}/provisioningKey",
        takes_query |-> FALSE, formats_query |-> FALSE],
       [name |-> "list_scim_groups", path |-> "/scimgroup/idpId/{idpId}",
        takes_query |-> TRUE, formats_query |-> TRUE],
       [name |-> "list_saml_attributes", path |-> "/samlAttribute",
        takes_query |-> FALSE, formats_query |-> FALSE],
       [name |-> "list_policies", path |-> "/policySet/rules/policyType/{policyType}",
        takes_query |-> FALSE, formats_query |-> FALSE],
       [name |-> "list_server_groups", path |-> "/serverGroup",
        takes_query |-> FALSE, formats_query |-> FALSE],
       [name |-> "list_posture_profiles", path |-> "/posture",
        takes_query |-> TRUE, formats_query |-> TRUE],
       [name |-> "list_privileged_consoles", path |-> "/privilegedConsoles",
        takes_query |-> TRUE, formats_query |-> TRUE],
       [name |-> "list_issued_certificates", path |-> "/certificate/issued",
        takes_query |-> TRUE, formats_query |-> FALSE] >>

\* the definition a method name is bound to: a class body is executed top
\* down, and a later def of a name replaces the earlier one
Bind(name) ==
    LET ks == {k \in DOMAIN ZpaClassBody : ZpaClassBody[k].name = name}
    IN ZpaClassBody[CHOOSE k \in ks : \A j \in ks : j <= k]

ListingNames == {ZpaClassBody[k].name : k \in DOMAIN ZpaClassBody}

\* if not query: query = "?pagesize=500"
DefaultQuery == <<"?pagesize", "500">>

\* the url a listing method hands to _obtain_all_results
ListingUrl(d, query) ==
    <<d.path>> \o (IF d.formats_query
                   THEN (IF query = NoQuery THEN DefaultQuery ELSE query)
                   ELSE <<>>)

ListingArgs(name) == IF Bind(name).takes_query THEN Queries ELSE {NoQuery}

\* a listing method is called by its name and builds its url
ZpaListingCall(name, query) ==
    /\ talker = "zpa"
    /\ pc = "idle"
    /\ args' = [method |-> name, query |-> query]
    /\ url' = ListingUrl(Bind(name), query)
    /\ pc' = "zpa_call"
    /\ ret' = Running(name)
    /\ UNCHANGED <<talker, base_uri, peer, calls, threads, session, arg_headers, page, i,
                   response, result, sent, recvd, login>>

(***************************************************************************)
(* ZiaPortalTalker                                                         *)
(***************************************************************************)
JSessionIds == {"", "j1", "j2"}
SessionCodes == {"", "z1", "z2"}
PortalCookieJars ==
    {NoDict}
        \cup {Dict1("JSESSIONID", j) : j \in JSessionIds}
        \cup {Dict1("ZS_SESSION_CODE", z) : z \in SessionCodes}
        \cup {Dict2("JSESSIONID", j, "ZS_SESSION_CODE", z) : j \in JSessionIds, z \in SessionCodes}
PortalLoginReplies ==
    {NetworkError} \cup [kind : {"response"}, status : Statuses, cookies : PortalCookieJars]

PortalLoginRequest ==
    Request("post_call", <<"/authenticatedSession">>, Dict1("Accept", "application/json"),
            NoDict, error_handling_default)

\* response.cookies.get(name) is truthy: the cookie is there and not empty
HasCookie(reply, name) == name \in DOMAIN reply.cookies /\ reply.cookies[name] # ""

\* an authenticate with one error for either missing cookie
PortalAuthOutcomeConflated(reply) ==
    IF Raises(error_handling_default, reply) THEN "TransportError"
    ELSE IF ~HasCookie(reply, "JSESSIONID") \/ ~HasCookie(reply, "ZS_SESSION_CODE")
    THEN "Invalid Credentials"
    ELSE "ok"

\* authenticate, lines 72-90: the exception it ends in, or "ok"
PortalAuthOutcome(reply) ==
    IF Raises(error_handling_default, reply) THEN "TransportError"
    ELSE IF ~HasCookie(reply, "JSESSIONID") THEN "Invalid Credentials"
    ELSE IF ~HasCookie(reply, "ZS_SESSION_CODE") THEN "Invalid API key"
    ELSE "ok"

\* authenticate, lines 79-80: j_session_id afterwards
PortalAuthJSessionId(old, reply) ==
    IF ~Raises(error_handling_default, reply) /\ HasCookie(reply, "JSESSIONID")
    THEN reply.cookies["JSESSIONID"]
    ELSE old

\* authenticate, lines 83-84: zs_session_code afterwards
PortalAuthSessionCode(old, reply) ==
    IF PortalAuthOutcome(reply) = "ok" THEN reply.cookies["ZS_SESSION_CODE"] ELSE old

\* authenticate, lines 85-88: headers afterwards
PortalAuthHeaders(old, reply) ==
    IF PortalAuthOutcome(reply) = "ok"
    THEN Dict2("Content-Type", "application/json",
               "ZS_CUSTOM_CODE", reply.cookies["ZS_SESSION_CODE"])
    ELSE old

PortalAuthenticate(reply) ==
    /\ talker = "portal"
    /\ j_session_id' = PortalAuthJSessionId(j_session_id, reply)
    /\ zs_session_code' = PortalAuthSessionCode(zs_session_code, reply)
    /\ headers' = PortalAuthHeaders(headers, reply)
    /\ sent' = <<PortalLoginRequest>>
    /\ login' = IF PortalAuthOutcome(reply) = "ok"
                THEN LoginOk(login, reply, PortalIssued(reply))
                ELSE LoginFailed(login, reply, PortalAuthOutcome(reply))
    /\ ret' = IF PortalAuthOutcome(reply) = "ok" THEN Returned("authenticate", None)
              ELSE Raised("authenticate", PortalAuthOutcome(reply))
    /\ UNCHANGED <<talker, base_uri, args, peer, calls, threads, header, pc, locals, recvd>>

\* the cookies argument built at every call site that passes one
PortalCookies == Dict2("JSESSIONID", j_session_id, "ZS_SESSION_CODE", zs_session_code)

\* the methods that send one request through hp_http with
\* headers=self.headers and the cookies of the session; two of them stand
\* for all
PortalMethods ==
    { [name |-> "list_pac_files", verb |-> "get_call"],
      [name |-> "delete_group", verb |-> "delete_call"] }

PortalEndpoint(m, reply) ==
    /\ talker = "portal"
    /\ sent' = <<Request(m.verb, <<m.name>>, headers, PortalCookies, error_handling_default)>>
    /\ ret' = IF Raises(error_handling_default, reply)
              THEN Raised(m.name, "TransportError")
              ELSE Returned(m.name, reply)
    /\ UNCHANGED <<talker, base_uri, args, peer, calls, threads, session, pc, locals, recvd, login>>

\* delete_department, lines 535-545: request_ with headers and cookies
PortalDeleteDepartment(reply) ==
    /\ talker = "portal"
    /\ sent' = <<Request("request_", <<"/departments/", "department_id">>, headers,
                         PortalCookies, error_handling_default)>>
    /\ ret' = IF Raises(error_handling_default, reply)
              THEN Raised("delete_department", "TransportError")
              ELSE Returned("delete_department", reply)
    /\ UNCHANGED <<talker, base_uri, args, peer, calls, threads, session, pc, locals, recvd, login>>

\* methods that hand request_ the method, the url and the caller's **kwargs
PortalKwargsMethods == {"delete_admin_role", "create_admin_user"}

\* **kwargs of the caller: none, or headers and cookies of the caller's own
Kwargs ==
    { NoDict,
      Dict2("headers", Dict1("X-Caller", "h"), "cookies", Dict1("caller", "c")) }

KwargsHeaders(kwargs) == IF "headers" \in DOMAIN kwargs THEN kwargs["headers"] ELSE NoDict
KwargsCookies(kwargs) == IF "cookies" \in DOMAIN kwargs THEN kwargs["cookies"] ELSE NoDict

\* delete_admin_role and the like, lines 560-566: request_(method, url, **kwargs)
PortalKwargsEndpoint(name, kwargs, reply) ==
    /\ talker = "portal"
    /\ sent' = <<Request("request_", <<name>>, KwargsHeaders(kwargs), KwargsCookies(kwargs),
                         error_handling_default)>>
    /\ ret' = IF Raises(error_handling_default, reply)
              THEN Raised(name, "TransportError")
              ELSE Returned(name, reply)
    /\ UNCHANGED <<talker, base_uri, args, peer, calls, threads, session, pc, locals, recvd, login>>

(***************************************************************************)
(* Pagination calls that run at the same time on one instance, each in a   *)
(* thread of its own.  Every call has its own frame of locals; the         *)
(* request and the arrival of its response are separate steps.             *)
(***************************************************************************)
CallIds == {1, 2}

\* the frame and the history of a call that has not begun
NotCalled ==
    [pc |-> "none", url |-> <<>>, arg_headers |-> NoDict, page |-> 0, i |-> 0,
     response |-> NoDict, result |-> <<>>, sent |-> <<>>, recvd |-> NoneReceived,
     ret |-> NoCall]
NoCalls == [c \in CallIds |-> NotCalled]

\* the frame of a call that is over: its locals are gone
Left(frame, outcome, history) ==
    [frame EXCEPT !.pc = "done", !.ret = outcome, !.recvd = history,
                  !.url = <<>>, !.arg_headers = NoDict, !.page = 0, !.i = 0,
                  !.response = NoDict, !.result = <<>>]

\* list_devices up to the first loop iteration of _obtain_all, lines 113-122, 83-84
CallListDevices(c, username, os_type) ==
    /\ talker = "cc"
    /\ calls[c].pc = "none"
    /\ calls' = [calls EXCEPT ![c] =
                    [@ EXCEPT !.pc = "issue", !.url = CcDevicesUrl(username, os_type),
                              !.arg_headers = header, !.page = 1, !.result = <<>>,
                              !.ret = Running("list_devices")]]
    /\ UNCHANGED <<talker, base_uri, args, peer, threads, session, pc, locals, ret, sent, recvd, login>>

\* a call that reads the cursor of the first call instead of its own
CallPageShared(c) == calls[1].page

\* _obtain_all, line 87: the local page of call c
CallPage(c) == calls[c].page

\* a paginator that reads the header of the instance at every fetch
CallPageRequestCurrentHeader(c) ==
    Request("get_call", calls[c].url \o <<"&page", ToString(CallPage(c))>>,
            header, NoDict, CcFetchErrorHandling)

\* _obtain_all, lines 86-92: the request of call c for its current page
CallPageRequest(c) ==
    Request("get_call", calls[c].url \o <<"&page", ToString(CallPage(c))>>,
            calls[c].arg_headers, NoDict, CcFetchErrorHandling)

\* a loop that asks for the next page while the last request is outstanding
CallIssueAhead(c) ==
    /\ talker = "cc"
    /\ calls[c].pc \in {"issue", "await"}
    /\ Len(calls[c].sent) < MaxFetches
    /\ calls' = [calls EXCEPT ![c] =
                    [@ EXCEPT !.pc = "await", !.sent = Append(@, CallPageRequest(c))]]
    /\ UNCHANGED <<talker, base_uri, args, peer, threads, session, pc, locals, ret, sent, recvd, login>>

\* _obtain_all, lines 86-92: get_call hands the request to the transport
CallIssue(c) ==
    /\ talker = "cc"
    /\ calls[c].pc = "issue"
    /\ Len(calls[c].sent) < MaxFetches
    /\ calls' = [calls EXCEPT ![c] =
                    [@ EXCEPT !.pc = "await", !.sent = Append(@, CallPageRequest(c))]]
    /\ UNCHANGED <<talker, base_uri, args, peer, threads, session, pc, locals, ret, sent, recvd, login>>

\* _obtain_all, lines 86-100: get_call comes back, with the response or
\* with an error, and the loop body runs up to the sleep, or the call returns
CallReceive(c, reply) ==
    /\ talker = "cc"
    /\ calls[c].pc = "await"
    /\ calls' = [calls EXCEPT ![c] =
          IF Raises(CcFetchErrorHandling, reply)
          THEN Left(@, Raised("list_devices", "TransportError"), Observe(@.recvd, reply))
          ELSE IF Truthy(reply.body)
          THEN [@ EXCEPT !.result = CcAccumulate(@, reply.body),
                         !.page = @ + 1,
                         !.pc = "sleep",
                         !.recvd = Receive(Observe(@, reply), reply.body)]
          ELSE Left(@, Returned("list_devices", @.result),
                    Receive(Observe(@.recvd, reply), reply.body))]
    /\ UNCHANGED <<talker, base_uri, args, peer, threads, session, pc, locals, ret, sent, recvd, login>>

\* _obtain_all, line 96: time.sleep(0.5) before the next fetch
CallSleep(c) ==
    /\ talker = "cc"
    /\ calls[c].pc = "sleep"
    /\ calls' = [calls EXCEPT ![c] =
                    [@ EXCEPT !.pc = "issue", !.recvd = Delayed(@, InterPageDelayMs)]]
    /\ UNCHANGED <<talker, base_uri, args, peer, threads, session, pc, locals, ret, sent, recvd, login>>

\* a listing method calls _obtain_all_results(u): lines 53-60, the first
\* request handed to the transport
CallObtainAllResults(c, u) ==
    /\ talker = "zpa"
    /\ calls[c].pc = "none"
    /\ calls' = [calls EXCEPT ![c] =
                    [@ EXCEPT !.pc = "first_await", !.url = ZpaPagedUrl(u), !.result = <<>>,
                              !.sent = <<ZpaFirstRequest(u)>>,
                              !.ret = Running("_obtain_all_results")]]
    /\ UNCHANGED <<talker, base_uri, args, peer, threads, session, pc, locals, ret, sent, recvd, login>>

\* _obtain_all_results, lines 56-64 and 75-78: the first get_call comes back
CallReceiveFirst(c, reply) ==
    /\ talker = "zpa"
    /\ calls[c].pc = "first_await"
    /\ calls' = [calls EXCEPT ![c] =
          IF Raises(ZpaFetchErrorHandling, reply)
          THEN Left(@, Raised("_obtain_all_results", "TransportError"),
                    Observe(@.recvd, reply))
          ELSE IF ZpaFirstOutcome(reply.body) = "empty"
          THEN Left(@, Returned("_obtain_all_results", <<>>),
                    ReceiveFirst(Observe(@.recvd, reply), reply.body))
          ELSE IF ZpaFirstOutcome(reply.body) = "KeyError"
          THEN Left(@, Raised("_obtain_all_results", "KeyError"),
                    ReceiveFirst(Observe(@.recvd, reply), reply.body))
          ELSE IF ZpaFirstOutcome(reply.body) = "loop"
          THEN [@ EXCEPT !.pc = "loop", !.i = 0, !.response = reply.body,
                         !.recvd = ReceiveFirst(Observe(@, reply), reply.body)]
          ELSE Left(@, Returned("_obtain_all_results", reply.body["list"]),
                    ReceiveFirst(Observe(@.recvd, reply), reply.body))]
    /\ UNCHANGED <<talker, base_uri, args, peer, threads, session, pc, locals, ret, sent, recvd, login>>

\* _obtain_all_results, lines 68-72: the request of call c for page index i
CallIndexRequest(c) ==
    Request("get_call", calls[c].url \o <<"&page", ToString(calls[c].i)>>, header, NoDict,
            ZpaFetchErrorHandling)

\* _obtain_all_results, lines 65-72: get_call hands the request of the loop
\* to the transport
CallLoopIssue(c) ==
    /\ talker = "zpa"
    /\ calls[c].pc = "loop"
    /\ ZpaLoopCondition(calls[c].i, calls[c].response)
    /\ calls' = [calls EXCEPT ![c] =
                    [@ EXCEPT !.pc = "loop_await", !.sent = Append(@, CallIndexRequest(c))]]
    /\ UNCHANGED <<talker, base_uri, args, peer, threads, session, pc, locals, ret, sent, recvd, login>>

\* _obtain_all_results, lines 65-78: the get_call of the loop comes back,
\* and the call returns when the loop condition fails afterwards
CallLoopReceive(c, reply) ==
    /\ talker = "zpa"
    /\ calls[c].pc = "loop_await"
    /\ calls' = [calls EXCEPT ![c] =
          IF Raises(ZpaFetchErrorHandling, reply)
          THEN Left(@, Raised("_obtain_all_results", "TransportError"),
                    Observe(@.recvd, reply))
          ELSE IF "list" \notin DOMAIN reply.body
          THEN Left(@, Raised("_obtain_all_results", "KeyError"), Observe(@.recvd, reply))
          ELSE IF ZpaLoopCondition(@.i + 1, @.response)
          THEN [@ EXCEPT !.result = ZpaAccumulate(@, reply.body["list"]),
                         !.i = @ + 1,
                         !.pc = "loop",
                         !.recvd = Receive(Observe(@, reply), reply.body["list"])]
          ELSE Left(@, Returned("_obtain_all_results",
                                ZpaAccumulate(@.result, reply.body["list"])),
                    Receive(Observe(@.recvd, reply), reply.body["list"]))]
    /\ UNCHANGED <<talker, base_uri, args, peer, threads, session, pc, locals, ret, sent, recvd, login>>

(***************************************************************************)
(* ZiaPortalTalker.authenticate and list_pac_files at the same time on one *)
(* instance, each in a thread of its own: every statement that reads or    *)
(* writes a field of the instance is a step.                               *)
(***************************************************************************)
\* authenticate, lines 72-78: post_call hands the login request to the
\* transport and waits
ReauthPost ==
    /\ talker = "portal"
    /\ threads.auth.pc = "ready"
    /\ threads' = [threads EXCEPT !.auth =
                      [@ EXCEPT !.pc = "await", !.ret = Running("authenticate")]]
    /\ UNCHANGED <<talker, base_uri, args, peer, calls, session, pc, locals, ret, sent, recvd, login>>

\* authenticate, lines 72-78: post_call comes back, with the response or
\* with an error
ReauthReceive(reply) ==
    /\ talker = "portal"
    /\ threads.auth.pc = "await"
    /\ threads' = [threads EXCEPT !.auth =
          IF Raises(error_handling_default, reply)
          THEN [pc |-> "done", response |-> reply,
                ret |-> Raised("authenticate", "TransportError")]
          ELSE [pc |-> "test_j", response |-> reply, ret |-> Running("authenticate")]]
    /\ UNCHANGED <<talker, base_uri, args, peer, calls, session, pc, locals, ret, sent, recvd, login>>

\* an authenticate that goes on to the second cookie without storing the first
ReauthStoreJSkipped ==
    /\ talker = "portal"
    /\ threads.auth.pc = "test_j"
    /\ threads' = [threads EXCEPT !.auth =
          IF HasCookie(threads.auth.response, "JSESSIONID")
          THEN [@ EXCEPT !.pc = "test_zs"]
          ELSE [@ EXCEPT !.pc = "done",
                         !.ret = Raised("authenticate", "Invalid Credentials")]]
    /\ UNCHANGED <<talker, base_uri, args, peer, calls, session, pc, locals, ret, sent, recvd, login>>

\* authenticate, lines 79-82: the test of JSESSIONID and the assignment of
\* self.j_session_id
ReauthStoreJ ==
    /\ talker = "portal"
    /\ threads.auth.pc = "test_j"
    /\ j_session_id' = PortalAuthJSessionId(j_session_id, threads.auth.response)
    /\ threads' = [threads EXCEPT !.auth =
          IF HasCookie(threads.auth.response, "JSESSIONID")
          THEN [@ EXCEPT !.pc = "test_zs"]
          ELSE [@ EXCEPT !.pc = "done",
                         !.ret = Raised("authenticate", "Invalid Credentials")]]
    /\ UNCHANGED <<talker, base_uri, args, peer, calls, header, zs_session_code, headers,
                   pc, locals, ret, sent, recvd, login>>

\* authenticate, lines 83-84 and 89-90: the test of ZS_SESSION_CODE and the
\* assignment of self.zs_session_code
ReauthStoreSessionCode ==
    /\ talker = "portal"
    /\ threads.auth.pc = "test_zs"
    /\ zs_session_code' = PortalAuthSessionCode(zs_session_code, threads.auth.response)
    /\ threads' = [threads EXCEPT !.auth =
          IF HasCookie(threads.auth.response, "ZS_SESSION_CODE")
          THEN [@ EXCEPT !.pc = "set_headers"]
          ELSE [@ EXCEPT !.pc = "done",
                         !.ret = Raised("authenticate", "Invalid API key")]]
    /\ UNCHANGED <<talker, base_uri, args, peer, calls, header, j_session_id, headers,
                   pc, locals, ret, sent, recvd, login>>

\* authenticate, lines 85-88: the assignment of self.headers, from
\* self.zs_session_code
ReauthStoreHeaders ==
    /\ talker = "portal"
    /\ threads.auth.pc = "set_headers"
    /\ headers' = Dict2("Content-Type", "application/json",
                        "ZS_CUSTOM_CODE", zs_session_code)
    /\ threads' = [threads EXCEPT !.auth =
                      [@ EXCEPT !.pc = "done", !.ret = Returned("authenticate", None)]]
    /\ UNCHANGED <<talker, base_uri, args, peer, calls, header, j_session_id, zs_session_code,
                   pc, locals, ret, sent, recvd, login>>

\* list_pac_files, line 174: headers=self.headers is evaluated.  during
\* records where authenticate stood at each read of a field.
PacFilesReadHeaders ==
    /\ talker = "portal"
    /\ threads.call.pc = "ready"
    /\ threads' = [threads EXCEPT !.call =
                      [@ EXCEPT !.pc = "read_j", !.headers = headers,
                                !.during = Append(@, threads.auth.pc)]]
    /\ UNCHANGED <<talker, base_uri, args, peer, calls, session, pc, locals, ret, sent, recvd, login>>

\* list_pac_files, line 176: self.j_session_id is evaluated
PacFilesReadJSessionId ==
    /\ talker = "portal"
    /\ threads.call.pc = "read_j"
    /\ threads' = [threads EXCEPT !.call =
                      [@ EXCEPT !.pc = "read_zs", !.j_session_id = j_session_id,
                                !.during = Append(@, threads.auth.pc)]]
    /\ UNCHANGED <<talker, base_uri, args, peer, calls, session, pc, locals, ret, sent, recvd, login>>

\* list_pac_files, lines 172-179: self.zs_session_code is evaluated and
\* get_call hands the request to the transport, then waits for the answer
PacFilesSend ==
    /\ talker = "portal"
    /\ threads.call.pc = "read_zs"
    /\ threads' = [threads EXCEPT !.call =
          [@ EXCEPT !.pc = "await",
                    !.during = Append(@, threads.auth.pc),
                    !.sent = <<Request("get_call", <<"/pacFiles">>, threads.call.headers,
                                       Dict2("JSESSIONID", threads.call.j_session_id,
                                             "ZS_SESSION_CODE", zs_session_code),
                                       error_handling_default)>>]]
    /\ UNCHANGED <<talker, base_uri, args, peer, calls, session, pc, locals, ret, sent, recvd, login>>

\* list_pac_files, lines 173-181: get_call comes back, with the response or
\* with an error, and the method returns
PacFilesReceive(reply) ==
    /\ talker = "portal"
    /\ threads.call.pc = "await"
    /\ threads' = [threads EXCEPT !.call =
          [@ EXCEPT !.pc = "done",
                    !.ret = IF Raises(error_handling_default, reply)
                            THEN Raised("list_pac_files", "TransportError")
                            ELSE Returned("list_pac_files", reply)]]
    /\ UNCHANGED <<talker, base_uri, args, peer, calls, session, pc, locals, ret, sent, recvd, login>>

(***************************************************************************)
(* A second instance of the same class, used from another thread.  Its     *)
(* fields are those its own __init__ and authenticate assigned.            *)
(***************************************************************************)
\* __init__ without credentials
NewPeer(class) ==
    [talker |-> class, header |-> NoDict, j_session_id |-> None,
     zs_session_code |-> None, headers |-> NoDict, ret |-> NoCall, sent |-> <<>>,
     login |-> NoLogin]

\* authenticate of the second instance
PeerAuthenticate(reply) ==
    /\ peer.talker # "none"
    /\ peer' =
         CASE peer.talker = "cc" ->
                [peer EXCEPT
                   !.header = CcAuthHeader(@, reply),
                   !.sent = <<CcLoginRequest>>,
                   !.login = IF CcAuthOutcome(reply) = "ok"
                             THEN LoginOk(@, reply, CcIssued(reply))
                             ELSE LoginFailed(@, reply, CcAuthOutcome(reply)),
                   !.ret = IF CcAuthOutcome(reply) = "ok"
                           THEN Returned("authenticate", None)
                           ELSE Raised("authenticate", CcAuthOutcome(reply))]
           [] peer.talker = "zpa" ->
                [peer EXCEPT
                   !.header = ZpaAuthHeader(@, reply),
                   !.sent = <<ZpaLoginRequest>>,
                   !.login = IF ZpaAuthOutcome(reply) = "ok"
                             THEN LoginOk(@, reply, ZpaIssued(reply))
                             ELSE LoginFailed(@, reply, ZpaAuthOutcome(reply)),
                   !.ret = IF ZpaAuthOutcome(reply) = "ok"
                           THEN Returned("authenticate", reply.body)
                           ELSE Raised("authenticate", ZpaAuthOutcome(reply))]
           [] peer.talker = "portal" ->
                [peer EXCEPT
                   !.j_session_id = PortalAuthJSessionId(@, reply),
                   !.zs_session_code = PortalAuthSessionCode(@, reply),
                   !.headers = PortalAuthHeaders(@, reply),
                   !.sent = <<PortalLoginRequest>>,
                   !.login = IF PortalAuthOutcome(reply) = "ok"
                             THEN LoginOk(@, reply, PortalIssued(reply))
                             ELSE LoginFailed(@, reply, PortalAuthOutcome(reply)),
                   !.ret = IF PortalAuthOutcome(reply) = "ok"
                           THEN Returned("authenticate", None)
                           ELSE Raised("authenticate", PortalAuthOutcome(reply))]
    /\ UNCHANGED <<talker, base_uri, args, calls, threads, session, pc, locals, ret, sent, recvd,
                   login>>

\* a header that the class holds for all its instances
PeerHeaderOfClass == header

\* self.header, read by a method of the second instance
PeerHeader == peer.header

\* the request of list_otp (cc), list_servers (zpa) or list_pac_files
\* (portal) of the second instance
PeerRequest ==
    CASE peer.talker = "cc" ->
           Request("get_call", <<"/public/v1/getOtp">>, PeerHeader, NoDict,
                   error_handling_default)
      [] peer.talker = "zpa" ->
           Request("get_call", <<"list_servers">>, PeerHeader, NoDict, TRUE)
      [] peer.talker = "portal" ->
           Request("get_call", <<"list_pac_files">>, peer.headers,
                   Dict2("JSESSIONID", peer.j_session_id,
                         "ZS_SESSION_CODE", peer.zs_session_code),
                   error_handling_default)

PeerEndpoint(reply) ==
    /\ peer.talker # "none"
    /\ peer' = [peer EXCEPT
                  !.sent = <<PeerRequest>>,
                  !.ret = IF Raises(PeerRequest.error_handling, reply)
                          THEN Raised("endpoint", "TransportError")
                          ELSE Returned("endpoint", reply)]
    /\ UNCHANGED <<talker, base_uri, args, calls, threads, session, pc, locals, ret, sent, recvd,
                   login>>

(***************************************************************************)
(* Construction                                                            *)
(***************************************************************************)
\* the client_id / username and the secret_key / client_secret / password
\* handed to a constructor; "" and None are the defaults
Credentials == {"", None, "id"} \X {"", "secret"}
CredentialGiven(v) == v # "" /\ v # None

\* a constructor that authenticates as soon as one credential is given
BothCredentialsEither(c) == CredentialGiven(c[1]) \/ CredentialGiven(c[2])

\* __init__, the test "if client_id and secret_key" and its like
BothCredentials(c) == CredentialGiven(c[1]) /\ CredentialGiven(c[2])

LoginRequest(class) ==
    CASE class = "cc" -> CcLoginRequest
      [] class = "zpa" -> ZpaLoginRequest
      [] class = "portal" -> PortalLoginRequest
LoginReplies(class) ==
    CASE class = "cc" -> CcLoginReplies
      [] class = "zpa" -> ZpaLoginReplies
      [] class = "portal" -> PortalLoginReplies
AuthOutcome(class, reply) ==
    CASE class = "cc" -> CcAuthOutcome(reply)
      [] class = "zpa" -> ZpaAuthOutcome(reply)
      [] class = "portal" -> PortalAuthOutcome(reply)
Issued(class, reply) ==
    CASE class = "cc" -> CcIssued(reply)
      [] class = "zpa" -> ZpaIssued(reply)
      [] class = "portal" -> PortalIssued(reply)

\* __init__ of the three classes: the fields are set to their empty values,
\* then authenticate runs when both credentials are given; an exception of
\* authenticate leaves __init__ and no instance is returned
Construct(c, reply) ==
    /\ pc = "new"
    /\ args' = [method |-> "__init__", credentials |-> c]
    /\ IF BothCredentials(c)
       THEN /\ header' = CASE talker = "cc" -> CcAuthHeader(NoDict, reply)
                           [] talker = "zpa" -> ZpaAuthHeader(NoDict, reply)
                           [] talker = "portal" -> NoDict
            /\ j_session_id' = IF talker = "portal" THEN PortalAuthJSessionId(None, reply)
                               ELSE None
            /\ zs_session_code' = IF talker = "portal" THEN PortalAuthSessionCode(None, reply)
                                  ELSE None
            /\ headers' = IF talker = "portal" THEN PortalAuthHeaders(NoDict, reply)
                          ELSE NoDict
            /\ sent' = <<LoginRequest(talker)>>
            /\ login' = IF AuthOutcome(talker, reply) = "ok"
                        THEN LoginOk(NoLogin, reply, Issued(talker, reply))
                        ELSE LoginFailed(NoLogin, reply, AuthOutcome(talker, reply))
            /\ ret' = IF AuthOutcome(talker, reply) = "ok" THEN Returned("__init__", None)
                      ELSE Raised("__init__", AuthOutcome(talker, reply))
            /\ pc' = IF AuthOutcome(talker, reply) = "ok" THEN "idle" ELSE "failed"
       ELSE /\ header' = NoDict
            /\ j_session_id' = None
            /\ zs_session_code' = None
            /\ headers' = NoDict
            /\ sent' = <<>>
            /\ login' = NoLogin
            /\ ret' = Returned("__init__", None)
            /\ pc' = "idle"
    /\ UNCHANGED <<talker, base_uri, peer, calls, threads, locals, recvd>>

(***************************************************************************)
(* Specifications                                                          *)
(***************************************************************************)
\* __init__ of the three classes without credentials: lines 34-36 (cc),
\* 32-35 (zpa), 41-43 (portal)
Unauthenticated ==
    /\ header = NoDict
    /\ j_session_id = None
    /\ zs_session_code = None
    /\ headers = NoDict

NoCallYet ==
    /\ pc = "idle"
    /\ url = <<>> /\ arg_headers = NoDict /\ page = 0 /\ i = 0
    /\ response = NoDict /\ result = <<>>
    /\ ret = NoCall /\ sent = <<>> /\ recvd = NoneReceived
    /\ login = NoLogin
    /\ args = NoArgs

\* the cloud argument of the constructors: a domain name for
\* ClientConnectorTalker and ZiaPortalTalker, a base address for ZpaTalker
\* (its default, line 17)
Clouds == {"zscaler.net"}
ZpaClouds == {"https://config.private.zscaler.com"}
CloudArgs(class) == IF class = "zpa" THEN ZpaClouds ELSE Clouds

\* __init__, the base address of the instance: lines 29 (cc), 26 (zpa), 36
\* (portal); ZpaTalker stores its cloud argument as it is
BaseUri(class, cloud) ==
    CASE class = "cc" -> <<"https://api-mobile.", cloud, "/papi">>
      [] class = "zpa" -> <<cloud>>
      [] class = "portal" -> <<"https://admin.", cloud, "/zsapi/v1">>

\* one instance, one call at a time
NoPeer == [talker |-> "none"]
NoThreads == [auth |-> [pc |-> "none"], call |-> [pc |-> "none"]]
Alone ==
    /\ peer = NoPeer
    /\ calls = NoCalls
    /\ threads = NoThreads

Init ==
    /\ talker \in {"cc", "zpa", "portal"}
    /\ base_uri \in {BaseUri(talker, cloud) : cloud \in CloudArgs(talker)}
    /\ Unauthenticated
    /\ NoCallYet
    /\ Alone

CcNext(P) ==
    \/ pc = "idle" /\ \E reply \in CcLoginReplies : CcAuthenticate(reply)
    \/ pc = "idle" /\ \E m \in CcMethods, reply \in PlainReplies : CcEndpoint(m, reply)
    \/ pc = "idle" /\ \E username \in {None, "", "u"}, os_type \in {None, "", "3"} :
                         CcListDevices(username, os_type)
    \/ \E reply \in CcPageReplies(P) : CcFetch(reply)
    \/ CcSleep

ZpaNext(P, TP) ==
    \/ pc = "idle" /\ \E reply \in ZpaLoginReplies : ZpaAuthenticate(reply)
    \/ pc = "idle" /\ \E m \in ZpaMethods, reply \in PlainReplies : ZpaEndpoint(m, reply)
    \/ pc = "idle" /\ \E reply \in PlainReplies : ZpaDeleteApplicationSegment(reply)
    \/ pc = "idle" /\ \E u \in ZpaListingUrls, reply \in ZpaReplies(ZpaBodies(P, TP)) :
                         ZpaObtainAllResults(u, reply)
    \/ \E reply \in ZpaReplies(ZpaPageBodies(P)) : ZpaLoopFetch(reply)

PortalNext ==
    \/ \E reply \in PortalLoginReplies : PortalAuthenticate(reply)
    \/ \E m \in PortalMethods, reply \in PlainReplies : PortalEndpoint(m, reply)
    \/ \E reply \in PlainReplies : PortalDeleteDepartment(reply)
    \/ \E name \in PortalKwargsMethods, kwargs \in Kwargs, reply \in PlainReplies :
           PortalKwargsEndpoint(name, kwargs, reply)

\* the session is what varies here; the remote's pages are few
Next == CcNext(FewPages) \/ ZpaNext(FewPages, FewTotals) \/ PortalNext

Spec == Init /\ [][Next]_vars

\* One pagination call, on an instance of ClientConnectorTalker or ZpaTalker
\* as its constructor left it: without credentials, or with credentials the
\* remote accepted.
InitPaging ==
    /\ talker \in {"cc", "zpa"}
    /\ header \in
         {NoDict} \cup
         (IF talker = "cc"
          THEN {CcAuthHeader(NoDict, [kind |-> "response", status |-> 200,
                                      body |-> Dict1("jwtToken", "t1")])}
          ELSE {ZpaAuthHeader(NoDict, [kind |-> "response", status |-> 200,
                                       body |-> Dict2("token_type", "Bearer",
                                                      "access_token", "t1")])})
    /\ j_session_id = None
    /\ zs_session_code = None
    /\ headers = NoDict
    /\ base_uri \in {BaseUri(talker, cloud) : cloud \in CloudArgs(talker)}
    /\ NoCallYet
    /\ Alone

NextPaging ==
    \/ ret = NoCall /\ \E username \in {None, "", "u"}, os_type \in {None, "", "3"} :
                         CcListDevices(username, os_type)
    \/ \E reply \in CcPageReplies(Pages) : CcFetch(reply)
    \/ CcSleep
    \/ ret = NoCall /\ \E u \in ZpaListingUrls, reply \in ZpaReplies(ZpaBodies(Pages, TotalPagesValues)) :
                         ZpaObtainAllResults(u, reply)
    \/ \E reply \in ZpaReplies(ZpaPageBodies(Pages)) : ZpaLoopFetch(reply)

SpecPaging == InitPaging /\ [][NextPaging]_vars

\* Two pagination calls on one instance of ClientConnectorTalker or
\* ZpaTalker, each in its own thread: any of their steps may come next.
CallUrls == {ApplicationSegmentsUrl, SegmentGroupUrl(NoQuery)}
CallNext(c) ==
    \/ \E username \in {None, "", "u"} : CallListDevices(c, username, None)
    \/ CallIssue(c)
    \/ \E reply \in CcPageReplies(FewPages) : CallReceive(c, reply)
    \/ CallSleep(c)
    \/ \E u \in CallUrls : CallObtainAllResults(c, u)
    \/ \E reply \in ZpaReplies(ZpaBodies(FewPages, FewTotals)) : CallReceiveFirst(c, reply)
    \/ CallLoopIssue(c)
    \/ \E reply \in ZpaReplies(ZpaPageBodies(FewPages)) : CallLoopReceive(c, reply)

NextCalls == \E c \in CallIds : CallNext(c)

SpecCalls == InitPaging /\ [][NextCalls]_vars

\* Two instances of one class, each used from its own thread: the first
\* through authenticate, endpoint and pagination calls, the second through
\* authenticate and endpoint calls.  The login responses are few.
FewCcLogins == {r \in CcLoginReplies : r.kind = "response" => r.status = 200}
FewZpaLogins ==
    {r \in ZpaLoginReplies :
        r.kind = "response" =>
            /\ r.status = 200
            /\ DOMAIN r.body \in {{}, {"token_type", "access_token"}}}
FewPortalLogins ==
    {r \in PortalLoginReplies :
        r.kind = "response" =>
            /\ r.status = 200
            /\ r.cookies \in {NoDict, Dict1("JSESSIONID", "j1"),
                               Dict2("JSESSIONID", "j1", "ZS_SESSION_CODE", "z1"),
                               Dict2("JSESSIONID", "j2", "ZS_SESSION_CODE", "z2")}}
OnePage == {<<"a">>}
FewLogins(class) ==
    CASE class = "cc" -> FewCcLogins
      [] class = "zpa" -> FewZpaLogins
      [] class = "portal" -> FewPortalLogins

InitTwo ==
    /\ talker \in {"cc", "zpa", "portal"}
    /\ base_uri \in {BaseUri(talker, cloud) : cloud \in CloudArgs(talker)}
    /\ Unauthenticated
    /\ NoCallYet
    /\ peer = NewPeer(talker)
    /\ calls = NoCalls
    /\ threads = NoThreads

NextTwo ==
    \/ pc = "idle" /\ \E reply \in FewCcLogins : CcAuthenticate(reply)
    \/ pc = "idle" /\ \E m \in CcMethods, reply \in PlainReplies : CcEndpoint(m, reply)
    \/ pc = "idle" /\ CcListDevices(None, None)
    \/ \E reply \in CcPageReplies(FewPages) : CcFetch(reply)
    \/ CcSleep
    \/ pc = "idle" /\ \E reply \in FewZpaLogins : ZpaAuthenticate(reply)
    \/ pc = "idle" /\ \E m \in ZpaMethods, reply \in PlainReplies : ZpaEndpoint(m, reply)
    \/ pc = "idle" /\ \E reply \in ZpaReplies(ZpaBodies(OnePage, FewTotals)) :
                         ZpaObtainAllResults(ApplicationSegmentsUrl, reply)
    \/ \E reply \in ZpaReplies({Dict1("list", l) : l \in OnePage}) : ZpaLoopFetch(reply)
    \/ \E reply \in FewPortalLogins : PortalAuthenticate(reply)
    \/ \E m \in PortalMethods, reply \in PlainReplies : PortalEndpoint(m, reply)
    \/ \E reply \in FewLogins(peer.talker) : PeerAuthenticate(reply)
    \/ \E reply \in PlainReplies : PeerEndpoint(reply)

SpecTwo == InitTwo /\ [][NextTwo]_vars

\* An instance of ZiaPortalTalker that its constructor authenticated, then
\* one authenticate call and one list_pac_files call, each in its own thread.
FirstLogin ==
    [kind |-> "response", status |-> 200,
     cookies |-> Dict2("JSESSIONID", "j1", "ZS_SESSION_CODE", "z1")]
InitReauth ==
    /\ talker = "portal"
    /\ base_uri \in {BaseUri(talker, cloud) : cloud \in CloudArgs(talker)}
    /\ header = NoDict
    /\ j_session_id = PortalAuthJSessionId(None, FirstLogin)
    /\ zs_session_code = PortalAuthSessionCode(None, FirstLogin)
    /\ headers = PortalAuthHeaders(NoDict, FirstLogin)
    /\ pc = "idle"
    /\ url = <<>> /\ arg_headers = NoDict /\ page = 0 /\ i = 0
    /\ response = NoDict /\ result = <<>>
    /\ ret = Returned("authenticate", None)
    /\ sent = <<PortalLoginRequest>>
    /\ recvd = NoneReceived
    /\ login = LoginOk(NoLogin, FirstLogin, PortalIssued(FirstLogin))
    /\ args = NoArgs
    /\ peer = NoPeer
    /\ calls = NoCalls
    /\ threads = [auth |-> [pc |-> "ready", response |-> NetworkError, ret |-> NoCall],
                  call |-> [pc |-> "ready", headers |-> NoDict, j_session_id |-> None,
                            during |-> <<>>, sent |-> <<>>, ret |-> NoCall]]

NextReauth ==
    \/ ReauthPost
    \/ \E reply \in PortalLoginReplies : ReauthReceive(reply)
    \/ ReauthStoreJ
    \/ ReauthStoreSessionCode
    \/ ReauthStoreHeaders
    \/ PacFilesReadHeaders
    \/ PacFilesReadJSessionId
    \/ PacFilesSend
    \/ \E reply \in PlainReplies : PacFilesReceive(reply)

SpecReauth == InitReauth /\ [][NextReauth]_vars

\* One pagination call on an instance of ClientConnectorTalker or ZpaTalker
\* while another thread calls authenticate on the same instance: the
\* assignment to self.header may fall between any two steps of the call.
NextPagingReauth ==
    \/ CallNext(1)
    \/ \E reply \in FewCcLogins : CcAuthenticate(reply)
    \/ \E reply \in FewZpaLogins : ZpaAuthenticate(reply)

SpecPagingReauth == InitPaging /\ [][NextPagingReauth]_vars

\* One call of a listing method of ZpaTalker, by any of the names of the
\* class and with any query the method takes.
InitListing == InitPaging /\ talker = "zpa"

NextListing ==
    \/ ret = NoCall /\ \E name \in ListingNames, query \in Queries :
                           query \in ListingArgs(name) /\ ZpaListingCall(name, query)
    \/ pc = "zpa_call" /\ \E reply \in ZpaReplies(ZpaBodies(FewPages, FewTotals)) :
                              ZpaObtainAllResults(url, reply)
    \/ \E reply \in ZpaReplies(ZpaPageBodies(FewPages)) : ZpaLoopFetch(reply)

SpecListing == InitListing /\ [][NextListing]_vars

\* An instance from its construction on: the constructor with any
\* credentials and any login response, then endpoint calls on the instance
\* it returned.
InitConstruct ==
    /\ talker \in {"cc", "zpa", "portal"}
    /\ base_uri \in {BaseUri(talker, cloud) : cloud \in CloudArgs(talker)}
    /\ Unauthenticated
    /\ pc = "new"
    /\ url = <<>> /\ arg_headers = NoDict /\ page = 0 /\ i = 0
    /\ response = NoDict /\ result = <<>>
    /\ ret = NoCall /\ sent = <<>> /\ recvd = NoneReceived
    /\ login = NoLogin
    /\ args = NoArgs
    /\ Alone

NextConstruct ==
    \/ \E c \in Credentials, reply \in LoginReplies(talker) : Construct(c, reply)
    \/ pc = "idle" /\ \E m \in CcMethods, reply \in PlainReplies : CcEndpoint(m, reply)
    \/ pc = "idle" /\ \E m \in ZpaMethods, reply \in PlainReplies : ZpaEndpoint(m, reply)
    \/ pc = "idle" /\ \E m \in PortalMethods, reply \in PlainReplies : PortalEndpoint(m, reply)

SpecConstruct == InitConstruct /\ [][NextConstruct]_vars

(***************************************************************************)
(* Properties of the pagination calls, checked under SpecPaging            *)
(***************************************************************************)
\* the page cursor a request carries: the value of its last parameter, page
PageCursor(req) ==
    IF Len(req.url) >= 2 /\ req.url[Len(req.url) - 1] = "&page"
    THEN req.url[Len(req.url)]
    ELSE None

CcCall == talker = "cc" /\ ret.method = "list_devices"
ZpaCall == talker = "zpa" /\ ret.method = "_obtain_all_results"
ZpaFirstBody == recvd.first[1]
ZpaReportedTotal == PyInt(ZpaFirstBody["totalPages"])
ZpaFirstHasList == ZpaCall /\ recvd.first # <<>> /\ "list" \in DOMAIN ZpaFirstBody
ZpaFirstHasTotal == "totalPages" \in DOMAIN ZpaFirstBody

\* C1: ClientConnectorTalker._obtain_all requests page=1, 2, ... in that
\* order; no page fetched before the call returns is empty; and when the call
\* returns after N fetches, the N-th response is the one empty page of the
\* call and the result is the bodies of pages 1..N-1 one after the other,
\* nothing dropped, reordered or de-duplicated.
C1_SentinelConcatenation ==
    CcCall =>
        /\ \A k \in 1..Len(sent) : PageCursor(sent[k]) = ToString(k)
        /\ ret.outcome = "running" => recvd.empty = 0 /\ recvd.n = Len(sent)
        /\ ret.outcome = "returned" =>
               /\ recvd.n = Len(sent)
               /\ recvd.empty = 1
               /\ ret.value = recvd.flat

C1_Witness ==
    /\ CcCall
    /\ ret.outcome = "returned"
    /\ Len(sent) = 3
    /\ ret.value = <<"a", "b", "a", "b">>

\* C2: when the first response of ZpaTalker._obtain_all_results has a list
\* field and reports totalPages = T > 1, the requests after the first carry
\* page = 0, 1, ... in that order, never beyond T; and when the call returns
\* it has fetched the T+1 pages 0..T, T+2 fetches in all, and returns the
\* list fields of those T+1 page responses one after the other.
C2_InclusivePageLoop ==
    (ZpaFirstHasList /\ ZpaFirstHasTotal /\ ZpaReportedTotal > 1) =>
        /\ PageCursor(sent[1]) = None
        /\ \A k \in 2..Len(sent) : PageCursor(sent[k]) = ToString(k - 2)
        /\ Len(sent) <= ZpaReportedTotal + 2
        /\ ret.outcome = "returned" =>
               /\ Len(sent) = ZpaReportedTotal + 2
               /\ recvd.n = ZpaReportedTotal + 1
               /\ ret.value = recvd.flat

C2_Witness ==
    /\ ZpaFirstHasList /\ ZpaFirstHasTotal /\ ZpaReportedTotal = 2
    /\ ZpaFirstBody["list"] = <<"a">>
    /\ ret.outcome = "returned"
    /\ PageCursor(sent[2]) = "0" /\ PageCursor(sent[3]) = "1" /\ PageCursor(sent[4]) = "2"
    /\ ret.value = <<"b", "a", "a", "b">>

\* C3: when the first response of ZpaTalker._obtain_all_results has no list
\* field, the call has returned the empty sequence after that one fetch,
\* whatever the response reports as totalPages.
C3_NoListReturnsEmpty ==
    (ZpaCall /\ recvd.first # <<>> /\ "list" \notin DOMAIN ZpaFirstBody) =>
        /\ ret = Returned("_obtain_all_results", <<>>)
        /\ Len(sent) = 1
        /\ pc = "idle"

C3_Witness ==
    /\ ZpaCall /\ recvd.first # <<>>
    /\ "list" \notin DOMAIN ZpaFirstBody
    /\ ZpaFirstHasTotal /\ ZpaReportedTotal = 2
    /\ ret = Returned("_obtain_all_results", <<>>)

\* C4: when the first response of ZpaTalker._obtain_all_results has a list
\* field and reports totalPages <= 1, the call has returned exactly that
\* list field after that one fetch.
C4_SinglePageReturnsList ==
    (ZpaFirstHasList /\ ZpaFirstHasTotal /\ ZpaReportedTotal <= 1) =>
        /\ ret = Returned("_obtain_all_results", ZpaFirstBody["list"])
        /\ Len(sent) = 1
        /\ pc = "idle"

C4_Witness ==
    /\ ZpaFirstHasList /\ ZpaFirstHasTotal /\ ZpaReportedTotal = 1
    /\ ZpaFirstBody["list"] = <<"b", "a">>
    /\ ret = Returned("_obtain_all_results", <<"b", "a">>)

\* C5: every fetch of either paginator is issued with error_handling=True,
\* and once the remote has failed a fetch (no response, or a status that is
\* not 2xx) the call is over with the transport's error: the caller got no
\* value, and neither a local of the call nor the header of the instance
\* holds what had been accumulated.
C5_FailureAborts ==
    (CcCall \/ ZpaCall) =>
        /\ \A k \in 1..Len(sent) : sent[k].error_handling
        /\ recvd.failed > 0 =>
               /\ pc = "idle"
               /\ ret \in {Raised("list_devices", "TransportError"),
                            Raised("_obtain_all_results", "TransportError")}
               /\ result = <<>>
               /\ \A k \in DOMAIN header : header[k] \notin Seq(Records) \ {<<>>}

C5_Witness ==
    /\ recvd.failed = 1
    /\ Len(sent) = 3
    /\ recvd.flat = <<"a", "b", "b">>
    /\ ret.outcome = "raised"

\* C11: ClientConnectorTalker._obtain_all: once the remote has answered a
\* fetch of the call with an empty page, the call is over and has returned;
\* that page is the only empty one and the last one fetched, the result is
\* the non-empty pages fetched before it, in full and in order, and the call
\* issues no fetch afterwards.
C11_StopsAtFirstEmptyPage ==
    /\ []((CcCall /\ recvd.empty > 0) =>
             /\ recvd.empty = 1
             /\ pc = "idle"
             /\ ret.outcome = "returned"
             /\ recvd.n = Len(sent)
             /\ ret.value = recvd.flat)
    /\ [][(CcCall /\ recvd.empty > 0) => sent' = sent]_vars

C11_Witness ==
    /\ CcCall
    /\ recvd.empty = 1
    /\ Len(sent) = 2
    /\ ret = Returned("list_devices", <<"b", "a">>)

\* C12: ClientConnectorTalker._obtain_all: every delay of the call lasts
\* 0.5 s; when the next fetch is about to be issued, as many delays as
\* fetches have been completed; while a delay is pending, the response of the
\* last fetch has been received and one delay fewer than fetches has been
\* completed; and once the call is over, after the empty page or an error,
\* it has completed one delay fewer than fetches: N fetches, N-1 delays.
C12_OneDelayBetweenFetches ==
    CcCall =>
        /\ \A k \in 1..Len(recvd.delays) : recvd.delays[k] = InterPageDelayMs
        /\ pc = "cc_fetch" => Len(recvd.delays) = Len(sent)
        /\ pc = "cc_sleep" =>
               /\ Len(recvd.delays) = Len(sent) - 1
               /\ recvd.n = Len(sent)
        /\ pc = "idle" => Len(recvd.delays) = Len(sent) - 1

C12_Witness ==
    /\ CcCall
    /\ pc = "idle"
    /\ Len(sent) = 3
    /\ recvd.delays = <<InterPageDelayMs, InterPageDelayMs>>
    /\ ret = Returned("list_devices", <<"a", "b", "b">>)

\* C13, as claimed: whenever the first response of
\* ZpaTalker._obtain_all_results has a list field and reports a total T >= 0,
\* a call that returns has fetched the pages 0..T and returns their list
\* fields one after the other.
C13_LoopsForEveryTotal ==
    (ZpaFirstHasList /\ ZpaFirstHasTotal /\ ret.outcome = "returned") =>
        /\ Len(sent) = ZpaReportedTotal + 2
        /\ \A k \in 2..Len(sent) : PageCursor(sent[k]) = ToString(k - 2)
        /\ ret.value = recvd.flat

\* C13, amended: whenever the first response has a list field and reports a
\* total T, a call that returns has, when T > 1, fetched the pages 0..T and
\* returns their list fields one after the other; when T = 0 or T = 1 it has
\* fetched no page and returns the list field of the first response.
C13_LoopsOnlyAboveOne ==
    (ZpaFirstHasList /\ ZpaFirstHasTotal /\ ret.outcome = "returned") =>
        IF ZpaReportedTotal > 1
        THEN /\ Len(sent) = ZpaReportedTotal + 2
             /\ \A k \in 2..Len(sent) : PageCursor(sent[k]) = ToString(k - 2)
             /\ recvd.n = ZpaReportedTotal + 1
             /\ ret.value = recvd.flat
        ELSE /\ Len(sent) = 1
             /\ recvd.n = 0
             /\ ret.value = ZpaFirstBody["list"]

C13_Witness ==
    /\ ZpaFirstHasList /\ ZpaFirstHasTotal /\ ZpaReportedTotal = 0
    /\ Len(sent) = 1
    /\ ret = Returned("_obtain_all_results", <<"a", "b">>)

\* C14: within one call of either paginator no two requests carry the same
\* page cursor; the remote fails at most one fetch of the call, and when it
\* has, the call is over with an error and issues no request afterwards.
C14_NoRetry ==
    /\ []((CcCall \/ ZpaCall) =>
             /\ \A j, k \in 1..Len(sent) :
                    j # k => PageCursor(sent[j]) # PageCursor(sent[k])
             /\ recvd.failed <= 1
             /\ recvd.failed = 1 => pc = "idle" /\ ret.outcome = "raised")
    /\ [][((CcCall \/ ZpaCall) /\ recvd.failed > 0) => sent' = sent]_vars

C14_Witness ==
    /\ ZpaCall
    /\ recvd.failed = 1
    /\ Len(sent) = 3
    /\ PageCursor(sent[2]) = "0" /\ PageCursor(sent[3]) = "1"
    /\ ret = Raised("_obtain_all_results", "TransportError")

\* how many '?' and how many pagesize parameters a url holds
QuestionMarks(u) == Cardinality({k \in 1..Len(u) : u[k] \in {"?page", "?pagesize"}})
PageSizes(u) == Cardinality({k \in 1..Len(u) : u[k] \in {"?pagesize", "&pagesize"}})

(***************************************************************************)
(* Properties of the session, checked under Spec                           *)
(***************************************************************************)
\* the last call was an endpoint method, begun after the last authenticate
EndpointCall == ret.method \notin {"none", "authenticate"}

\* a login response carries the cookie: it is in the jar and not empty,
\* which is what response.cookies.get(name) tells apart
Carries(reply, name) == name \in DOMAIN reply.cookies /\ reply.cookies[name] # ""

\* the request holds a header or cookie of the session
AttachesSession(r) ==
    CASE talker = "cc" -> "auth-token" \in DOMAIN r.headers
      [] talker = "zpa" -> "Authorization" \in DOMAIN r.headers
      [] talker = "portal" ->
            \/ "ZS_CUSTOM_CODE" \in DOMAIN r.headers
            \/ "JSESSIONID" \in DOMAIN r.cookies
            \/ "ZS_SESSION_CODE" \in DOMAIN r.cookies

\* the session headers and cookies of the request are those made of the
\* values v that a login response issued
AttachesIssued(r, v) ==
    CASE talker = "cc" -> r.headers = ("auth-token" :> v[1])
      [] talker = "zpa" -> r.headers = ("Authorization" :> <<v[1], v[2]>>)
      [] talker = "portal" ->
            /\ r.headers = ("Content-Type" :> "application/json") @@ ("ZS_CUSTOM_CODE" :> v[2])
            /\ r.cookies = ("JSESSIONID" :> v[1]) @@ ("ZS_SESSION_CODE" :> v[2])

\* the request holds the headers and cookies the caller passed as **kwargs
CallerSupplied(r) == r.headers = ("X-Caller" :> "h")

\* C6: ZiaPortalTalker.authenticate, given a login response: without the
\* JSESSIONID cookie it fails with "Invalid Credentials" whether or not
\* ZS_SESSION_CODE is there; with JSESSIONID and without ZS_SESSION_CODE it
\* fails with "Invalid API key"; with both it does not fail.  (A cookie is
\* there when the jar holds it with a value that is not empty.)
C6_DistinctLoginErrors ==
    (talker = "portal" /\ login.outcome # "none" /\ login.reply.kind = "response") =>
        /\ ~Carries(login.reply, "JSESSIONID") =>
               login.outcome = "raised" /\ login.error = "Invalid Credentials"
        /\ Carries(login.reply, "JSESSIONID") /\ ~Carries(login.reply, "ZS_SESSION_CODE") =>
               login.outcome = "raised" /\ login.error = "Invalid API key"
        /\ Carries(login.reply, "JSESSIONID") /\ Carries(login.reply, "ZS_SESSION_CODE") =>
               login.outcome = "ok"

C6_Witness ==
    /\ talker = "portal"
    /\ login.outcome = "raised"
    /\ login.reply.kind = "response"
    /\ login.reply.cookies = ("JSESSIONID" :> "j1")
    /\ ret = Raised("authenticate", "Invalid API key")

\* C7: in each of the three talkers, when the last authenticate call
\* succeeded, every request of an endpoint method called since then that
\* holds a header or cookie of the session holds the values of that last
\* login response, not those of an earlier one.
C7_LatestAttachment ==
    (login.outcome = "ok" /\ EndpointCall) =>
        \A k \in 1..Len(sent) :
            AttachesSession(sent[k]) => AttachesIssued(sent[k], login.attached)

C7_Witness ==
    /\ talker = "portal"
    /\ login.outcome = "ok"
    /\ login.before = << <<"j1", "z1">> >>
    /\ login.attached = <<"j2", "z2">>
    /\ ret.method = "list_pac_files"
    /\ sent[1].cookies["JSESSIONID"] = "j2"
    /\ sent[1].headers["ZS_CUSTOM_CODE"] = "z2"

\* C8: when the last authenticate call succeeded, every request of every
\* endpoint method called since then, unless the caller passed headers of
\* its own as keyword arguments, holds the auth attachment of the session.
C8_EveryRequestAttaches ==
    (login.outcome = "ok" /\ EndpointCall) =>
        \A k \in 1..Len(sent) :
            ~CallerSupplied(sent[k]) =>
                /\ AttachesSession(sent[k])
                /\ AttachesIssued(sent[k], login.attached)

\* C9: while no authenticate call has succeeded on the instance, no request
\* of an endpoint method holds a header or cookie value that a login
\* response issued.
NeverAuthenticated == login.outcome # "ok" /\ login.before = <<>>
C9_NothingIssuedAttached ==
    (NeverAuthenticated /\ EndpointCall) =>
        \A k \in 1..Len(sent) :
            \/ CallerSupplied(sent[k])
            \/ /\ sent[k].headers = NoDict
               /\ \A c \in DOMAIN sent[k].cookies : sent[k].cookies[c] = None

\* C10: in each of the three talkers, authenticate ends in an error whenever
\* the login response has a status that is not 2xx or lacks an expected
\* field (jwtToken; JSESSIONID or ZS_SESSION_CODE; token_type or
\* access_token).
LacksExpectedField(reply) ==
    CASE talker = "cc" -> "jwtToken" \notin DOMAIN reply.body
      [] talker = "zpa" ->
            "token_type" \notin DOMAIN reply.body \/ "access_token" \notin DOMAIN reply.body
      [] talker = "portal" ->
            ~Carries(reply, "JSESSIONID") \/ ~Carries(reply, "ZS_SESSION_CODE")
C10_RejectedLoginFails ==
    (login.outcome # "none" /\ login.reply.kind = "response") =>
        ((~Is2xx(login.reply.status) \/ LacksExpectedField(login.reply)) =>
            login.outcome = "raised")

\* C20: a step of any call other than authenticate, be it an endpoint
\* method or a pagination call, returning or raising, leaves header,
\* j_session_id, zs_session_code, headers and base_uri as they were.
C20_OnlyAuthenticateChangesSession ==
    [][ret'.method # "authenticate" => UNCHANGED <<session, base_uri>>]_vars

C20_Witness ==
    /\ talker = "portal"
    /\ login.outcome = "ok"
    /\ ret = Raised("delete_group", "TransportError")
    /\ j_session_id = "j2" /\ zs_session_code = "z2"
    /\ headers = ("Content-Type" :> "application/json") @@ ("ZS_CUSTOM_CODE" :> "z2")
    /\ base_uri = <<"https://admin.", "zscaler.net", "/zsapi/v1">>

(***************************************************************************)
(* Properties of calls that run at the same time, checked under SpecCalls  *)
(***************************************************************************)
\* the requests of a call that the transport has not come back from
Outstanding(call) == Len(call.sent) - call.recvd.answered

\* C16: within one pagination call of either paginator at most one request
\* is outstanding; one is outstanding exactly while the call waits in
\* get_call; and a request is handed to the transport only when every
\* earlier request of the call has been answered and the loop has looked at
\* the answer.
C16_OneRequestOutstanding ==
    /\ [](\A c \in CallIds :
             /\ Outstanding(calls[c]) \in {0, 1}
             /\ Outstanding(calls[c]) = 1 <=>
                    calls[c].pc \in {"await", "first_await", "loop_await"})
    /\ [][\A c \in CallIds :
             Len(calls'[c].sent) > Len(calls[c].sent) =>
                 /\ Outstanding(calls[c]) = 0
                 /\ calls[c].pc \in {"none", "issue", "loop"}]_vars

C16_Witness ==
    /\ talker = "cc"
    /\ calls[1].pc = "await"
    /\ Len(calls[1].sent) = 2
    /\ calls[1].recvd.answered = 1
    /\ calls[1].recvd.flat = <<"a">>
    /\ calls[2].pc = "none"

\* the cursors of the requests of a call are those of the call run alone
OwnCursors(call) ==
    IF talker = "cc"
    THEN \A k \in 1..Len(call.sent) : PageCursor(call.sent[k]) = ToString(k)
    ELSE /\ Len(call.sent) >= 1 => PageCursor(call.sent[1]) = None
         /\ \A k \in 2..Len(call.sent) : PageCursor(call.sent[k]) = ToString(k - 2)

\* the value a call returned is made of the responses to its own requests
OwnResult(call) ==
    call.ret.outcome = "returned" =>
        IF talker = "cc" THEN call.ret.value = call.recvd.flat
        ELSE IF "list" \notin DOMAIN call.recvd.first[1] THEN call.ret.value = <<>>
        ELSE IF PyInt(call.recvd.first[1]["totalPages"]) > 1
        THEN call.ret.value = call.recvd.flat
        ELSE call.ret.value = call.recvd.first[1]["list"]

\* C18: when two pagination calls run at the same time on one instance,
\* under every interleaving of their steps each call requests the cursor
\* values it requests when it runs alone (1, 2, ... for _obtain_all; none,
\* then 0, 1, ... for _obtain_all_results), in that order, and returns what
\* the responses to its own requests make up.
C18_CallsOwnTheirCursors ==
    \A c \in CallIds : OwnCursors(calls[c]) /\ OwnResult(calls[c])

C18_Witness ==
    /\ talker = "cc"
    /\ calls[1].pc = "await"
    /\ Len(calls[1].sent) = 3
    /\ PageCursor(calls[1].sent[3]) = "3"
    /\ calls[2].pc = "await"
    /\ Len(calls[2].sent) = 2
    /\ PageCursor(calls[2].sent[2]) = "2"

(***************************************************************************)
(* Properties of an authenticate that runs at the same time as an endpoint *)
(* call, checked under SpecReauth                                          *)
(***************************************************************************)
\* the request of the list_pac_files call, once sent
PacFilesRequest == threads.call.sent[1]
\* the values the request holds: JSESSIONID, ZS_SESSION_CODE, ZS_CUSTOM_CODE
PacFilesAttached ==
    <<PacFilesRequest.cookies["JSESSIONID"], PacFilesRequest.cookies["ZS_SESSION_CODE"],
      PacFilesRequest.headers["ZS_CUSTOM_CODE"]>>

\* C19: ZiaPortalTalker.authenticate on an authenticated instance, at the
\* same time as list_pac_files on that instance.  A call that reads the three
\* session fields while authenticate stands between the assignment of
\* j_session_id and the test of ZS_SESSION_CODE sends the JSESSIONID of the
\* new login response with the ZS_SESSION_CODE cookie and the ZS_CUSTOM_CODE
\* header of the previous authentication; a call that reads them before
\* authenticate has stored anything (not begun, waiting for its response, or
\* about to test JSESSIONID) sends the previous three; one that reads them
\* after authenticate has returned sends the new three.  The request is
\* fixed when it is handed to the transport: what authenticate does while
\* the call waits for its answer changes nothing of it.
C19_TornRequest ==
    threads.call.pc \in {"await", "done"} =>
        /\ threads.call.during = <<"test_zs", "test_zs", "test_zs">> =>
               PacFilesAttached = <<threads.auth.response.cookies["JSESSIONID"],
                                    login.attached[2], login.attached[2]>>
        /\ (\A k \in 1..3 : threads.call.during[k] \in {"ready", "await", "test_j"}) =>
               PacFilesAttached = <<login.attached[1], login.attached[2], login.attached[2]>>
        /\ (threads.call.during = <<"done", "done", "done">>
              /\ threads.auth.ret.outcome = "returned") =>
               PacFilesAttached = <<threads.auth.response.cookies["JSESSIONID"],
                                    threads.auth.response.cookies["ZS_SESSION_CODE"],
                                    threads.auth.response.cookies["ZS_SESSION_CODE"]>>

C19_Witness ==
    /\ threads.call.pc = "done"
    /\ login.attached = <<"j1", "z1">>
    /\ threads.auth.response.kind = "response"
    /\ threads.auth.response.cookies = Dict2("JSESSIONID", "j2", "ZS_SESSION_CODE", "z2")
    /\ PacFilesAttached = <<"j2", "z1", "z1">>

(***************************************************************************)
(* Properties of two instances, checked under SpecTwo                      *)
(***************************************************************************)
\* the first instance, as a record of its fields and of its login history
First ==
    [talker |-> talker, header |-> header, j_session_id |-> j_session_id,
     zs_session_code |-> zs_session_code, headers |-> headers, login |-> login]

\* the auth fields of an instance are what its own authenticate calls made
\* them: empty until one succeeded, then made of the values of the last
\* login response that one of them accepted
OwnSession(inst) ==
    LET issued == Before(inst.login) IN
    CASE inst.talker = "cc" ->
           inst.header = IF issued = <<>> THEN NoDict
                         ELSE "auth-token" :> issued[1][1]
      [] inst.talker = "zpa" ->
           inst.header = IF issued = <<>> THEN NoDict
                         ELSE "Authorization" :> <<issued[1][1], issued[1][2]>>
      [] inst.talker = "portal" ->
           /\ inst.zs_session_code = IF issued = <<>> THEN None ELSE issued[1][2]
           /\ inst.headers = IF issued = <<>> THEN NoDict
                             ELSE ("Content-Type" :> "application/json")
                                      @@ ("ZS_CUSTOM_CODE" :> issued[1][2])
           /\ inst.login.outcome = "ok" => inst.j_session_id = issued[1][1]

\* the requests of the endpoint and pagination calls of an instance hold
\* the fields of that instance
OwnRequests ==
    /\ EndpointCall =>
           \A k \in 1..Len(sent) :
               IF talker = "portal"
               THEN /\ sent[k].headers = headers
                    /\ sent[k].cookies = ("JSESSIONID" :> j_session_id)
                                             @@ ("ZS_SESSION_CODE" :> zs_session_code)
               ELSE sent[k].headers = header
    /\ peer.ret.method = "endpoint" =>
           IF peer.talker = "portal"
           THEN /\ peer.sent[1].headers = peer.headers
                /\ peer.sent[1].cookies = ("JSESSIONID" :> peer.j_session_id)
                                              @@ ("ZS_SESSION_CODE" :> peer.zs_session_code)
           ELSE peer.sent[1].headers = peer.header

\* C17: two instances used at the same time.  Under every interleaving of
\* their calls, the auth fields of each instance are what its own
\* authenticate calls made them, the requests of each instance hold its own
\* fields, and a step of a call on one instance changes nothing of the other
\* instance.
C17_InstancesIndependent ==
    /\ [](OwnSession(First) /\ OwnSession(peer) /\ OwnRequests)
    /\ [][<<session, base_uri, pc, locals, ret, sent, recvd, login>>'
              # <<session, base_uri, pc, locals, ret, sent, recvd, login>>
            => peer' = peer]_vars

C17_Witness ==
    /\ talker = "cc"
    /\ header = ("auth-token" :> "t1")
    /\ pc = "cc_sleep"
    /\ Len(sent) = 2
    /\ sent[2].headers = ("auth-token" :> "t1")
    /\ peer.header = ("auth-token" :> "t2")
    /\ peer.ret.method = "endpoint"
    /\ peer.sent[1].headers = ("auth-token" :> "t2")


(***************************************************************************)
(* Properties of construction, checked under SpecConstruct                 *)
(***************************************************************************)
Constructed == ret.method = "__init__"

\* C21: a constructor authenticates exactly when both credentials are
\* non-empty: it then sends the one login request, and fails when
\* authenticate fails; with an empty credential it sends nothing and leaves
\* the session unauthenticated.
C21_ConstructorAuthenticates ==
    Constructed =>
        IF CredentialGiven(args.credentials[1]) /\ CredentialGiven(args.credentials[2])
        THEN /\ sent = <<LoginRequest(talker)>>
             /\ login.outcome \in {"ok", "raised"}
             /\ login.outcome = "raised" =>
                    (ret = Raised("__init__", login.error) /\ pc = "failed")
             /\ login.outcome = "ok" => (ret.outcome = "returned" /\ pc = "idle")
        ELSE /\ sent = <<>>
             /\ ret.outcome = "returned" /\ pc = "idle"
             /\ login = NoLogin
             /\ Unauthenticated

\* a constructor given only a client id has returned without a request
C21_Witness ==
    /\ Constructed
    /\ args.credentials = <<"id", "">>
    /\ sent = <<>>
    /\ ret.outcome = "returned"

(***************************************************************************)
(* Properties of a failed authenticate, checked under Spec                 *)
(***************************************************************************)
\* the session fields as the last authenticate that succeeded set them, or
\* as __init__ set them when none has succeeded
SessionOfLastLogin ==
    IF login.before = <<>>
    THEN Unauthenticated
    ELSE CASE talker = "cc" -> header = Dict1("auth-token", login.before[1][1])
           [] talker = "zpa" -> header = Dict1("Authorization", login.before[1])
           [] talker = "portal" ->
                /\ j_session_id = login.before[1][1]
                /\ zs_session_code = login.before[1][2]
                /\ headers = Dict2("Content-Type", "application/json",
                                   "ZS_CUSTOM_CODE", login.before[1][2])

\* C22: after an authenticate that failed, the session fields are those
\* the last successful authenticate set (or the empty ones of __init__):
\* the failed call changed none of them.
C22_FailedLoginKeepsSession ==
    (ret.method = "authenticate" /\ ret.outcome = "raised") => SessionOfLastLogin

(***************************************************************************)
(* Further properties of the pagination calls, checked under SpecPaging    *)
(***************************************************************************)
\* C23: ZpaTalker._obtain_all_results whose first response has a list field
\* and reports totalPages > 1: while the remote has failed no fetch the call
\* has not raised, also when a looped page response carries no list field;
\* and once all pages are answered it has returned the list fields received.
C23_PageWithoutListIsSkipped ==
    (ZpaFirstHasList /\ ZpaFirstHasTotal /\ ZpaReportedTotal > 1 /\ recvd.failed = 0) =>
        /\ ret.outcome # "raised"
        /\ recvd.answered = ZpaReportedTotal + 2 =>
               (ret.outcome = "returned" /\ ret.value = recvd.flat)

\* C24: ClientConnectorTalker._obtain_all is over exactly when the remote
\* has answered a fetch with an empty page or has failed one; as long as
\* every page received is non-empty the call is still running, however many
\* pages it has fetched, with its cursor on the next page.
C24_EndsOnlyOnEmptyPageOrError ==
    CcCall =>
        /\ pc = "idle" <=> (recvd.empty > 0 \/ recvd.failed > 0)
        /\ (recvd.empty = 0 /\ recvd.failed = 0) =>
               /\ ret.outcome = "running"
               /\ pc \in {"cc_fetch", "cc_sleep"}
               /\ page = Len(sent) + 1
               /\ result = recvd.flat

\* three non-empty pages fetched, and the call is about to fetch the fourth
C24_Witness ==
    /\ CcCall
    /\ Len(sent) = 3
    /\ recvd.n = 3 /\ recvd.empty = 0 /\ recvd.failed = 0
    /\ pc = "cc_fetch"
    /\ page = 4
    /\ ret.outcome = "running"

\* C25: ZpaTalker._obtain_all_results issues a bounded number of fetches,
\* fixed by its first response: one fetch when that response failed, has no
\* list field or reports totalPages <= 1; otherwise, with T the totalPages
\* it reports, never more than T+2, each pass of the loop one index further
\* on, the call over once T+2 are issued, and a call that returns has issued
\* exactly T+2, whatever the later page responses hold.
C25_FetchesFixedByFirstResponse ==
    ZpaCall =>
        /\ Len(sent) >= 1
        /\ (recvd.first = <<>> \/ ~ZpaFirstHasList \/ ~ZpaFirstHasTotal) =>
               (Len(sent) = 1 /\ pc = "idle")
        /\ (ZpaFirstHasList /\ ZpaFirstHasTotal) =>
               /\ Len(sent) <= ZpaReportedTotal + 2
               /\ ZpaReportedTotal <= 1 => (Len(sent) = 1 /\ pc = "idle")
               /\ Len(sent) = ZpaReportedTotal + 2 => pc = "idle"
               /\ pc = "zpa_loop" =>
                      (i = Len(sent) - 1 /\ i <= ZpaReportedTotal /\ recvd.answered = Len(sent))
               /\ (ZpaReportedTotal > 1 /\ ret.outcome = "returned") =>
                      Len(sent) = ZpaReportedTotal + 2

\* a call told of two pages has fetched pages 0, 1 and 2 although each of
\* them came back empty
C25_Witness ==
    /\ ZpaFirstHasList /\ ZpaFirstHasTotal /\ ZpaReportedTotal = 2
    /\ ZpaFirstBody["list"] = <<"a">>
    /\ recvd.n = 3 /\ recvd.flat = <<>>
    /\ Len(sent) = 4
    /\ ret = Returned("_obtain_all_results", <<>>)

(***************************************************************************)
(* Properties of a pagination call during a re-authentication, checked     *)
(* under SpecPagingReauth                                                  *)
(***************************************************************************)
\* C26, as claimed: all requests of one pagination call carry the same headers, also
\* when authenticate has set a new header on the instance while the call
\* was running.
C26_OneAttachmentPerCall ==
    \A c \in CallIds :
        \A j, k \in 1..Len(calls[c].sent) :
            calls[c].sent[j].headers = calls[c].sent[k].headers

\* C26, amended: all requests of one ClientConnectorTalker.list_devices call
\* carry the same headers, also when authenticate has set a new header
\* meanwhile; each request of ZpaTalker._obtain_all_results carries the
\* header the instance holds at the moment the request is issued.
C26_CapturedOrCurrentAttachment ==
    /\ [](talker = "cc" =>
             \A c \in CallIds :
                 \A k \in 1..Len(calls[c].sent) :
                     calls[c].sent[k].headers = calls[c].sent[1].headers)
    /\ [][\A c \in CallIds :
              (talker = "zpa" /\ Len(calls'[c].sent) > Len(calls[c].sent)) =>
                  calls'[c].sent[Len(calls'[c].sent)].headers = header]_vars

\* a ZpaTalker call whose first request went out before a successful
\* authenticate and whose first looped request went out after it
C26_Witness ==
    /\ talker = "zpa"
    /\ login.outcome = "ok"
    /\ Len(calls[1].sent) >= 2
    /\ calls[1].sent[1].headers # calls[1].sent[2].headers
    /\ calls[1].sent[2].headers = header

(***************************************************************************)
(* Properties of the listing methods of ZpaTalker, checked under           *)
(* SpecListing                                                             *)
(***************************************************************************)
\* the listing method called, and the requests its pagination has sent
ListingCalled == args.method \in ListingNames
HasSegment(u, q) == \E k \in 0..(Len(u) - Len(q)) : SubSeq(u, k + 1, k + Len(q)) = q

\* the pagesize parameters a query holds, each with its value
PageSizeParameters(q) ==
    {SubSeq(q, k, k + 1) : k \in {j \in 1..(Len(q) - 1) : q[j] \in {"?pagesize", "&pagesize"}}}

\* C15: a call of a ZPA listing method that passes its query on: every
\* request url has exactly one '?' and exactly one pagesize parameter; when
\* the caller's query holds a pagesize parameter, wherever it stands in the
\* query, every url holds that parameter and not the default pagesize=500;
\* when the caller gave no query, every url holds the default.
C15_OnePageSizeParameter ==
    (ListingCalled /\ Bind(args.method).formats_query) =>
        \A k \in 1..Len(sent) :
            /\ QuestionMarks(sent[k].url) = 1
            /\ PageSizes(sent[k].url) = 1
            /\ IF PageSizeParameters(args.query) # {}
               THEN /\ \A ps \in PageSizeParameters(args.query) : HasSegment(sent[k].url, ps)
                    /\ ~HasSegment(sent[k].url, DefaultQuery)
               ELSE HasSegment(sent[k].url, DefaultQuery)

\* C27: a call of list_browser_access_certificates builds the url of
\* .../clientlessCertificate/issued and sends every request of its
\* pagination there; and every listing endpoint defined in the class is the
\* endpoint some method name is bound to.
C27_BrowserAccessCertificates ==
    args.method = "list_browser_access_certificates" =>
        /\ pc = "zpa_call" => url[1] = "/clientlessCertificate/issued"
        /\ \A k \in 1..Len(sent) : sent[k].url[1] = "/clientlessCertificate/issued"
        /\ \A k \in DOMAIN ZpaClassBody :
               \E name \in ListingNames : Bind(name).path = ZpaClassBody[k].path

\* C28: a call of a listing method that takes a query: when the caller gave
\* one, every url of the call holds it and none holds the default
\* pagesize=500; when the caller gave none, every url holds the default.
C28_CallerQueryInEveryUrl ==
    (ListingCalled /\ Bind(args.method).takes_query) =>
        \A k \in 1..Len(sent) :
            IF args.query = NoQuery
            THEN HasSegment(sent[k].url, DefaultQuery)
            ELSE /\ HasSegment(sent[k].url, args.query)
                 /\ ~HasSegment(sent[k].url, DefaultQuery)

=============================================================================
